---------------------------- MODULE Spec2Model ----------------------------
(***************************************************************************)
(* Model of the resampling-based significance engine of                    *)
(* src/utils/eda/significance: the permutation engine (bootstrap.py), the  *)
(* parametric tests that call it (tests.py) and the orchestration          *)
(* procedures (wrapper.py).                                                *)
(*                                                                         *)
(* Numbers are exact.  A statistic is kept as a sign and a ratio           *)
(* (value = sgn * sqrt(num / den) for a t statistic), so that two          *)
(* statistics of the same kind over groups of the same sizes are compared  *)
(* exactly; den = 0 is an infinite value and nan is the undefined value,   *)
(* every comparison with which is false.  Probabilities that the code      *)
(* rounds to six decimals are counted in millionths.                       *)
(***************************************************************************)
EXTENDS Integers, Sequences, FiniteSets, TLC

\* ------------------------------------------------------------------ bounds
\* Longest group of a direct call of the engine.
MaxLen == 2
\* Largest num_samples / num_permutations that is tried.
MaxSamples == 2
\* Observation values of the groups.
Vals == {0, 1}
\* random_seed values: None, or an integer seed.
None == "None"
NoSeed == [some |-> FALSE, val |-> 0]
Seeds == {[some |-> TRUE, val |-> v] : v \in {1}}
\* num_samples values tried, the invalid ones (0, negative) included.
SampleCounts == (0 - 1) .. MaxSamples

\* ----------------------------------------------------------- sequences
RECURSIVE SeqSum(_)
SeqSum(s) == IF s = <<>> THEN 0 ELSE Head(s) + SeqSum(Tail(s))

RECURSIVE SeqSumSq(_)
SeqSumSq(s) == IF s = <<>> THEN 0 ELSE Head(s) * Head(s) + SeqSumSq(Tail(s))

RECURSIVE Concatenate(_)
Concatenate(gs) == IF gs = <<>> THEN <<>> ELSE Head(gs) \o Concatenate(Tail(gs))

Count(s, v) == Cardinality({k \in 1..Len(s) : s[k] = v})

SeqsUpTo(S, n) == UNION {[1..k -> S] : k \in 0..n}

Sign(z) == IF z > 0 THEN 1 ELSE IF z < 0 THEN 0 - 1 ELSE 0

\* ------------------------------------------------------ statistic values
NaN == [nan |-> TRUE, sgn |-> 0, num |-> 0, den |-> 1]

Num(s, n, d) == [nan |-> FALSE, sgn |-> s, num |-> n, den |-> d]

\* abs(t)
AbsV(a) == IF a.nan THEN a ELSE [a EXCEPT !.sgn = IF a.sgn = 0 THEN 0 ELSE 1]

\* a >= b on floats: false when either side is NaN.
Geq(a, b) ==
    IF a.nan \/ b.nan THEN FALSE
    ELSE IF a.sgn # b.sgn THEN a.sgn > b.sgn
    ELSE IF a.sgn = 0 THEN TRUE
    ELSE IF a.sgn = 1 THEN a.num * b.den >= b.num * a.den
    ELSE a.num * b.den <= b.num * a.den

\* scipy.stats.ttest_ind(x, y, equal_var=ev)[0]: Student's t with the pooled
\* variance, or Welch's t.  Undefined (NaN) when a sample has fewer than two
\* observations or when both the mean difference and the variance are 0;
\* infinite when only the variance is 0.
TStat(x, y, ev) ==
    LET nx == Len(x)
        ny == Len(y)
        Ax == nx * SeqSumSq(x) - SeqSum(x) * SeqSum(x)
        Ay == ny * SeqSumSq(y) - SeqSum(y) * SeqSum(y)
        D  == SeqSum(x) * ny - SeqSum(y) * nx
        num == IF ev THEN D * D * (nx + ny - 2)
                            ELSE D * D * (nx - 1) * (ny - 1)
        den == IF ev THEN (nx + ny) * (Ax * ny + Ay * nx)
                            ELSE Ax * ny * ny * (ny - 1) + Ay * nx * nx * (nx - 1)
    IN  IF nx < 2 \/ ny < 2 THEN NaN
        ELSE IF den = 0 THEN (IF D = 0 THEN NaN ELSE Num(Sign(D), 1, 0))
        ELSE Num(Sign(D), num, den)

\* Products over the groups of a list.
RECURSIVE SeqProd(_)
SeqProd(s) == IF s = <<>> THEN 1 ELSE Head(s) * SeqProd(Tail(s))

RECURSIVE GCD(_, _)
GCD(a, b) == IF b = 0 THEN a ELSE GCD(b, a % b)

\* A ratio of non-negative integers in lowest terms, as a statistic value
\* (value = num / den for an F or a chi-square statistic).
Ratio(n, d) ==
    IF d = 0 THEN (IF n = 0 THEN NaN ELSE Num(1, 1, 0))
    ELSE IF n = 0 THEN Num(0, 0, 1)
    ELSE Num(1, n \div GCD(n, d), d \div GCD(n, d))

\* _f_statistic, lines 39-52, in float arithmetic: a.mean() of an empty
\* group is NaN, and a division by zero gives NaN (0 / 0) or infinity.
\* With n, S, Q the size, sum and sum of squares of a group, P the product
\* of the sizes, N the total size and T the total sum:
\*   ss_between = (SUM (S * N - T * n)^2 * P / n) / (N^2 * P)
\*   ss_within  = (SUM (Q * n - S^2) * P / n) / P
FStatWith(gs, dfw) ==
    LET k    == Len(gs)
        n    == [a \in 1..k |-> Len(gs[a])]
        N    == SeqSum(n)
        T    == SeqSum(Concatenate(gs))
        P    == SeqProd(n)
        ssbN == SeqSum([a \in 1..k |->
                    (SeqSum(gs[a]) * N - T * n[a]) * (SeqSum(gs[a]) * N - T * n[a])
                        * (P \div n[a])])
        sswP == SeqSum([a \in 1..k |->
                    (SeqSumSq(gs[a]) * n[a] - SeqSum(gs[a]) * SeqSum(gs[a]))
                        * (P \div n[a])])
    IN  IF \E a \in 1..k : n[a] = 0 THEN NaN
        ELSE IF k = 1 \/ dfw = 0 THEN NaN
        ELSE Ratio(ssbN * dfw, N * N * (k - 1) * sswP)

\* A within-group mean square over N instead of N - k.
FStatBiased(gs) == FStatWith(gs, Len(Concatenate(gs)))

\* Line 50: ms_within = ss_within / (N - k)
FStat(gs) == FStatWith(gs, Len(Concatenate(gs)) - Len(gs))

\* np.unique: the distinct values in ascending order.
RECURSIVE Unique(_)
Unique(S) ==
    IF S = {} THEN <<>>
    ELSE LET m == CHOOSE x \in S : \A y \in S : x <= y
         IN  <<m>> \o Unique(S \ {m})

\* The distinct labels in the order in which the pooled array first shows
\* them (pd.unique in place of np.unique).
RECURSIVE FirstSeen(_)
FirstSeen(s) ==
    IF s = <<>> THEN <<>>
    ELSE LET before == FirstSeen(SubSeq(s, 1, Len(s) - 1))
         IN  IF \E i \in 1..Len(before) : before[i] = s[Len(s)] THEN before
             ELSE Append(before, s[Len(s)])

LevelsAsSeen(gs) == FirstSeen(Concatenate(gs))

\* Lines 86-94: one row per group, one column per level of the pooled
\* labels, each cell the count of the level in the group.
Levels(gs) == Unique({Concatenate(gs)[i] : i \in 1..Len(Concatenate(gs))})

ContingencyTable(gs) ==
    [r \in 1..Len(gs) |-> [c \in 1..Len(Levels(gs)) |-> Count(gs[r], Levels(gs)[c])]]

RowTotals(tb) == [r \in 1..Len(tb) |-> SeqSum(tb[r])]
ColTotals(tb) ==
    IF tb = <<>> THEN <<>>
    ELSE [c \in 1..Len(tb[1]) |-> SeqSum([r \in 1..Len(tb) |-> tb[r][c]])]

\* Degrees of freedom of the table: (rows - 1) * (columns - 1).
Dof(tb) == IF tb = <<>> THEN 0 ELSE (Len(tb) - 1) * (Len(tb[1]) - 1)

\* chi2_contingency(table, correction=False) raises ValueError for a table
\* without cells and for an expected frequency of zero (an empty row).
ContingencyRaises(tb) ==
    \/ tb = <<>>
    \/ Len(tb[1]) = 0
    \/ \E r \in 1..Len(tb) : SeqSum(tb[r]) = 0

\* A statistic with the correction of Yates: |observed - expected| - 1/2.
Chi2StatYates(tb) ==
    LET R == RowTotals(tb)
        C == ColTotals(tb)
        N == SeqSum(R)
        cell(r, c) ==
            LET d == 2 * (tb[r][c] * N - R[r] * C[c])
                a == (IF d < 0 THEN 0 - d ELSE d) - N
            IN  a * a * (SeqProd(R) \div R[r]) * (SeqProd(C) \div C[c])
    IN  IF Dof(tb) = 0 THEN Num(0, 0, 1)
        ELSE Ratio(SeqSum([r \in 1..Len(tb) |->
                       SeqSum([c \in 1..Len(C) |-> cell(r, c)])]),
                   4 * N * SeqProd(R) * SeqProd(C))

\* chi2_contingency(table, correction=False)[0]: the sum over the cells of
\* (observed - expected)^2 / expected, expected = R * C / N, which is
\* (observed * N - R * C)^2 / (N * R * C); 0 when the table has no degree
\* of freedom.
Chi2Stat(tb) ==
    LET R == RowTotals(tb)
        C == ColTotals(tb)
        N == SeqSum(R)
        cell(r, c) ==
            (tb[r][c] * N - R[r] * C[c]) * (tb[r][c] * N - R[r] * C[c])
                * (SeqProd(R) \div R[r]) * (SeqProd(C) \div C[c])
    IN  IF Dof(tb) = 0 THEN Num(0, 0, 1)
        ELSE Ratio(SeqSum([r \in 1..Len(tb) |->
                       SeqSum([c \in 1..Len(C) |-> cell(r, c)])]),
                   N * SeqProd(R) * SeqProd(C))

\* The statistic functions handed to the engine by its direct callers.
StatFuncs == {"ttest_welch", "ttest_student"}

\* stat_func(groups) raises instead of returning: groups[1] of a shorter
\* list, np.concatenate of no array, chi2_contingency of a table it rejects.
StatRaises(f, gs) ==
    IF f \in {"ttest_welch", "ttest_student"} THEN Len(gs) < 2
    ELSE IF f = "_f_statistic" THEN Len(gs) = 0
    ELSE Len(gs) = 0 \/ ContingencyRaises(ContingencyTable(gs))

StatError(f) == IF f \in {"ttest_welch", "ttest_student"} THEN "IndexError" ELSE "ValueError"

StatApply(f, gs) ==
    IF f = "ttest_student" THEN TStat(gs[1], gs[2], TRUE)
    ELSE IF f = "ttest_welch" THEN TStat(gs[1], gs[2], FALSE)
    ELSE IF f = "_f_statistic" THEN FStat(gs)
    ELSE Chi2Stat(ContingencyTable(gs))


\* ------------------------------------------------- the global generator
\* State of numpy's process-wide generator: never seeded by the program
\* (src = Entropy: seeded by the operating system, every draw is possible),
\* or seeded with src, n bounded draws ago.
Entropy == [seeded |-> FALSE, seed |-> 0, n |-> 0]

\* The n-th bounded draw (a value of 0..bound) of the stream of a seed: a
\* fixed function of the seed and of the position in the stream.
Draw(seed, n, bound) == ((seed + 2) * (n + 1) + n * n) % (bound + 1)

\* A call that never seeds the generator.
SeedRngSkipped(g, seed) == g

\* np.random.seed(random_seed), run only for a seed that is not None.
SeedRng(g, seed) == IF seed.some THEN [seeded |-> TRUE, seed |-> seed.val, n |-> 0] ELSE g

Swap(s, a, b) == [s EXCEPT ![a] = s[b], ![b] = s[a]]

\* np.random.shuffle: for i = n-1 down to 1, swap x[i] with x[j], j drawn
\* from 0..i (positions are 0-based in the code, 1-based here).
RECURSIVE FisherYates(_, _, _)
FisherYates(s, i, js) ==
    IF i < 1 THEN s ELSE FisherYates(Swap(s, i + 1, js[i] + 1), i - 1, js)

\* Every arrangement of the values of s: each distinct value in front of
\* every arrangement of the others.
RECURSIVE Arrangements(_)
Arrangements(s) ==
    IF s = <<>> THEN {<<>>}
    ELSE UNION {{<<s[k]>> \o a :
                    a \in Arrangements(SubSeq(s, 1, k - 1) \o SubSeq(s, k + 1, Len(s)))} :
                k \in {j \in 1..Len(s) : \A i \in 1..(j - 1) : s[i] # s[j]}}

DrawsOf(s) == IF Len(s) < 2 THEN 0 ELSE Len(s) - 1

\* A shuffle that puts the generator back to where it was (get_state
\* before, set_state after).
ShuffleOutcomesRestoring(g, s) ==
    IF ~g.seeded
    THEN {[flat |-> a, rng |-> g] : a \in Arrangements(s)}
    ELSE LET n  == Len(s)
             js == [i \in 1..(n - 1) |-> Draw(g.seed, g.n + (n - 1 - i), i)]
         IN  {[flat |-> FisherYates(s, n - 1, js), rng |-> g]}

\* The shuffled array and the generator after one np.random.shuffle(s).
ShuffleOutcomes(g, s) ==
    IF ~g.seeded
    THEN {[flat |-> a, rng |-> g] : a \in Arrangements(s)}
    ELSE LET n  == Len(s)
             js == [i \in 1..(n - 1) |-> Draw(g.seed, g.n + (n - 1 - i), i)]
         IN  {[flat |-> FisherYates(s, n - 1, js),
               rng  |-> [g EXCEPT !.n = g.n + DrawsOf(s)]]}

\* np.split(flat, np.cumsum(sizes)[:-1]): contiguous chunks of the sizes.
RECURSIVE Offset(_, _)
Offset(sz, k) == IF k <= 1 THEN 0 ELSE sz[k - 1] + Offset(sz, k - 1)

\* A split at every cumulated size, the last one included: np.split then
\* returns one more chunk, the empty rest.
SplitAtAll(s, sz) ==
    [k \in 1..(Len(sz) + 1) |->
        IF k <= Len(sz) THEN SubSeq(s, Offset(sz, k) + 1, Offset(sz, k) + sz[k])
        ELSE <<>>]

Split(s, sz) == [k \in 1..Len(sz) |-> SubSeq(s, Offset(sz, k) + 1, Offset(sz, k) + sz[k])]

\* ------------------------------------------------------------ the state
VARIABLES
    pc,           \* idle, loop (inside permutation_pvalue), ret, done, raised
    caller,       \* who called permutation_pvalue
    groups, stat_func, num_samples, two_sided, random_seed,   \* its arguments
    rng,          \* the process-wide generator
    t_obs, flat, sizes, hits,                                 \* its locals
    iter,         \* iterations of the loop done
    t,            \* the statistic of the last reshuffle
    inc,          \* what the last iteration added to hits
    result,       \* the value permutation_pvalue returned: hits / num_samples
    error,        \* the exception raised
    stats,        \* the dict ttest_two_samples returned
    calls,        \* calls made with these arguments: the first, then a second
    trace,        \* the reshuffles a seeded call has drawn
    prev,         \* result and reshuffles of the preceding call
    \* the orchestration procedures of wrapper.py
    df,           \* the table of observations, a sequence of rows
    top_times, categories, num_permutations, equal_var, alpha,   \* arguments
    baseline,     \* show_category_ttests: the baseline sample
    idx,          \* iterations of the procedure's loop done
    rows,         \* the records the loop has collected
    res,          \* the result table
    ret,          \* the list the procedure returned
    \* confidence_intervals, mlr, evaluate_regression, show_priority_return_chi2
    cols, n_bootstrap,            \* arguments
    model,        \* the fitted model and the attributes mlr has set on it
    out,          \* what evaluate_regression has printed and plotted
    prio_map, absret_threshold,   \* arguments
    \* round_up_to_next_half_hour
    timestamp,    \* its argument
    rounded       \* the timestamp it returned

engineVars == <<pc, caller, groups, stat_func, num_samples, two_sided, random_seed,
                rng, t_obs, flat, sizes, hits, iter, t, inc, result, error, stats,
                calls, trace, prev>>

\* What a procedure of wrapper.py leaves alone in the engine.
engineLocals == <<groups, stat_func, num_samples, two_sided, random_seed, rng,
                  t_obs, flat, sizes, hits, iter, t, inc, result, stats,
                  calls, trace, prev>>

prepVars == <<timestamp, rounded>>

moreVars == <<cols, n_bootstrap, model, out, prio_map, absret_threshold, prepVars>>

wrapVars == <<df, top_times, categories, num_permutations, equal_var, alpha,
              baseline, idx, rows, res, ret, moreVars>>

vars == <<engineVars, wrapVars>>

Groups == SeqsUpTo(Vals, MaxLen)
GroupSets == SeqsUpTo(Groups, 2)

NoResult == [num |-> 0, den |-> 0]
NoStats == [N_x |-> 0, N_y |-> 0, Mean_x |-> NaN, Mean_y |-> NaN, t_stat |-> NaN,
            p_perm |-> NoResult]
NoPrev == [some |-> FALSE, p |-> NoResult, perms |-> <<>>, seed |-> NoSeed]

EngineIdle ==
    /\ pc = "idle" /\ caller = None
    /\ groups = <<>> /\ stat_func = None /\ num_samples = 0
    /\ two_sided = FALSE /\ random_seed = NoSeed
    /\ t_obs = NaN /\ flat = <<>> /\ sizes = <<>> /\ hits = 0 /\ iter = 0
    /\ t = NaN /\ inc = 0 /\ result = NoResult /\ error = None /\ stats = NoStats
    /\ calls = 0 /\ trace = <<>> /\ prev = NoPrev

NoModel == [fitted |-> FALSE, boot_coefs_ |-> <<>>, has_boot |-> FALSE,
            has_conf_int |-> FALSE, ci_ |-> 0, n_train |-> 0, n_feats |-> 0,
            weighted |-> FALSE]
NoOut == [coef_ci |-> FALSE, interval |-> FALSE, plot |-> None]
NoTimestamp == [day |-> 0 - 1, hour |-> 0, minute |-> 0, second |-> 0, microsecond |-> 0]

MoreIdle ==
    /\ cols = <<>> /\ n_bootstrap = 0 /\ model = NoModel /\ out = NoOut
    /\ prio_map = <<>> /\ absret_threshold = None
    /\ timestamp = NoTimestamp /\ rounded = NoTimestamp

WrapIdle ==
    /\ df = <<>> /\ top_times = <<>> /\ categories = <<>>
    /\ num_permutations = 0 /\ equal_var = FALSE /\ alpha = 0
    /\ baseline = <<>> /\ idx = 0 /\ rows = <<>> /\ res = <<>> /\ ret = <<>>
    /\ MoreIdle

Init == EngineIdle /\ WrapIdle /\ rng = Entropy

\* -------------------------------------------------- permutation_pvalue
\* A two-sided count that adds one for each tail the reshuffle reaches.
HitIncPerTail(tt, tobs, ts) ==
    IF ts THEN (IF Geq(tt, AbsV(tobs)) THEN 1 ELSE 0)
               + (IF Geq(AbsV(tt), AbsV(tobs)) THEN 1 ELSE 0)
    ELSE (IF Geq(tt, tobs) THEN 1 ELSE 0)

\* A count of the reshuffles strictly beyond the observed statistic.
HitIncStrict(tt, tobs, ts) ==
    IF ts THEN (IF Geq(AbsV(tt), AbsV(tobs)) /\ ~Geq(AbsV(tobs), AbsV(tt)) THEN 1 ELSE 0)
    ELSE (IF Geq(tt, tobs) /\ ~Geq(tobs, tt) THEN 1 ELSE 0)

\* hits += (abs(t) >= abs(t_obs)) if two_sided else (t >= t_obs)
HitInc(tt, tobs, ts) ==
    IF ts THEN (IF Geq(AbsV(tt), AbsV(tobs)) THEN 1 ELSE 0)
    ELSE (IF Geq(tt, tobs) THEN 1 ELSE 0)

\* Lines 16-22: seed, observed statistic, pooled copy, sizes, hits = 0.
Enter(who, gs, f, n, ts, seed) ==
    /\ caller' = who
    /\ groups' = gs /\ stat_func' = f /\ num_samples' = n
    /\ two_sided' = ts /\ random_seed' = seed
    /\ rng' = SeedRng(rng, seed)
    /\ iter' = 0 /\ hits' = 0 /\ t' = NaN /\ inc' = 0
    /\ result' = NoResult /\ trace' = <<>>
    /\ IF StatRaises(f, gs)
       THEN /\ pc' = "raised" /\ error' = StatError(f)
            /\ t_obs' = NaN /\ flat' = <<>> /\ sizes' = <<>>
       ELSE /\ pc' = "loop" /\ error' = None
            /\ t_obs' = StatApply(f, gs)
            /\ flat' = Concatenate(gs)
            /\ sizes' = [k \in 1..Len(gs) |-> Len(gs[k])]

\* A direct call of the engine with any arguments.
PermCall ==
    /\ pc = "idle"
    /\ \E gs \in GroupSets, f \in StatFuncs, n \in SampleCounts,
          ts \in BOOLEAN, seed \in Seeds \cup {NoSeed} :
          Enter("direct", gs, f, n, ts, seed)
    /\ calls' = 1
    /\ UNCHANGED <<stats, prev, wrapVars>>

\* A loop that stops one iteration short.
LoopDoneEarly(i, n) == i + 1 >= n

\* for _ in range(num_samples): the loop is over after num_samples
\* iterations (at once for num_samples <= 0).
LoopDone(i, n) == i >= n

\* A pooled array that shares the memory of the groups (views of one
\* buffer): the shuffle in place reorders the groups with it.
GroupsSharingFlat(gs, fl, sz) == Split(fl, sz)

\* Lines 20 and 25: np.concatenate returns a new array, so the shuffle of
\* flat in place leaves the arrays of groups as they are.
GroupsAfterShuffle(gs, fl, sz) == gs

\* One iteration of the loop, lines 24-28.
PermIter ==
    /\ pc = "loop"
    /\ ~LoopDone(iter, num_samples)
    /\ \E o \in ShuffleOutcomes(rng, flat) :
          LET parts == Split(o.flat, sizes)
              tt    == StatApply(stat_func, parts)
          IN  /\ flat' = o.flat
              /\ groups' = GroupsAfterShuffle(groups, o.flat, sizes)
              /\ rng' = o.rng
              /\ t' = tt
              /\ inc' = HitInc(tt, t_obs, two_sided)
              /\ hits' = hits + HitInc(tt, t_obs, two_sided)
              /\ trace' = IF random_seed.some THEN Append(trace, o.flat) ELSE trace
    /\ iter' = iter + 1
    /\ UNCHANGED <<pc, caller, stat_func, num_samples, two_sided, random_seed,
                   t_obs, sizes, result, error, stats, calls, prev, wrapVars>>

\* Line 30, return hits / num_samples: the loop is over (at once when
\* num_samples <= 0); the division of the int 0 by 0 raises.
PermReturn ==
    /\ pc = "loop"
    /\ LoopDone(iter, num_samples)
    /\ IF num_samples = 0
       THEN pc' = "raised" /\ error' = "ZeroDivisionError" /\ result' = result
       ELSE /\ pc' = IF caller = "direct" THEN "done" ELSE "ret"
            /\ result' = [num |-> hits, den |-> num_samples]
            /\ error' = error
    /\ UNCHANGED <<caller, groups, stat_func, num_samples, two_sided, random_seed,
                   rng, t_obs, flat, sizes, hits, iter, t, inc, stats, calls,
                   trace, prev, wrapVars>>

\* The same call made again, whatever the generator has become.
PermCallAgain ==
    /\ pc = "done" /\ caller = "direct"
    /\ calls = 1
    /\ Enter("direct", groups, stat_func, num_samples, two_sided, random_seed)
    /\ calls' = calls + 1
    /\ prev' = [some |-> TRUE, p |-> result, perms |-> trace, seed |-> random_seed]
    /\ UNCHANGED <<stats, wrapVars>>

\* Other code of the process draws from the generator between two calls
\* (np.random.choice in _bootstrap_ci).
MaxDrawsBetween == 1

OtherRandomUse ==
    /\ pc = "done" /\ caller = "direct"
    /\ calls = 1
    /\ rng.seeded
    /\ rng.n < num_samples * DrawsOf(flat) + MaxDrawsBetween
    /\ rng' = [rng EXCEPT !.n = rng.n + 1]
    /\ UNCHANGED <<pc, caller, groups, stat_func, num_samples, two_sided, random_seed,
                   t_obs, flat, sizes, hits, iter, t, inc, result, error, stats,
                   calls, trace, prev, wrapVars>>

\* A call with a seed, and after its return a call without one: the
\* second runs on the generator as the first has left it.
SharedSeeds == {[some |-> TRUE, val |-> v] : v \in {1, 2}}

SeededCall ==
    /\ pc = "idle"
    /\ \E gs \in [1..2 -> [1..2 -> Vals]], f \in StatFuncs, n \in 1..MaxSamples,
          seed \in SharedSeeds :
          Enter("direct", gs, f, n, FALSE, seed)
    /\ calls' = 1
    /\ UNCHANGED <<stats, prev, wrapVars>>

UnseededCallAfter ==
    /\ pc = "done" /\ caller = "direct"
    /\ calls = 1 /\ random_seed.some
    /\ \E gs \in {<<<<0, 1>>, <<1, 1>>>>, <<<<0, 0, 1>>, <<1>>>>, <<<<0, 1>>, <<0, 1>>>>},
          f \in StatFuncs, n \in 1..MaxSamples, ts \in BOOLEAN :
          Enter("direct", gs, f, n, ts, NoSeed)
    /\ calls' = calls + 1
    /\ prev' = [some |-> TRUE, p |-> result, perms |-> trace, seed |-> random_seed]
    /\ UNCHANGED <<stats, wrapVars>>

NextShared ==
    \/ SeededCall
    \/ UnseededCallAfter
    \/ PermIter
    \/ PermReturn

SpecShared == Init /\ [][NextShared]_vars

\* Two samples of two observations each.
PairSets == [1..2 -> [1..2 -> Vals]]

\* A direct call with num_samples >= 1 and the generator left unseeded.
PermCallValid ==
    /\ pc = "idle"
    /\ \E gs \in PairSets, f \in StatFuncs, n \in 1..MaxSamples, ts \in BOOLEAN :
          Enter("direct", gs, f, n, ts, NoSeed)
    /\ calls' = 1
    /\ UNCHANGED <<stats, prev, wrapVars>>

NextLoop ==
    \/ PermCallValid
    \/ PermIter
    \/ PermReturn

\* The interpreter keeps running the loop and the return statement: no
\* step of permutation_pvalue waits for anything.
SpecLoop ==
    /\ Init
    /\ [][NextLoop]_vars
    /\ WF_vars(PermIter)
    /\ WF_vars(PermReturn)

\* ------------------------------------------------- ttest_two_samples
\* x.mean(): undefined for an empty array.
Mean(x) == IF Len(x) = 0 THEN NaN ELSE Num(Sign(SeqSum(x)), SeqSum(x), Len(x))

\* Lines 18-24: the classical statistic, then the permutation p-value of
\* the same statistic with the engine's defaults (two_sided, random_seed).
TTestCall ==
    /\ pc = "idle"
    /\ \E x \in Groups, y \in Groups, ev \in BOOLEAN, n \in SampleCounts :
          /\ Enter("ttest_two_samples", <<x, y>>,
                   IF ev THEN "ttest_student" ELSE "ttest_welch", n, FALSE, NoSeed)
          /\ stats' = [NoStats EXCEPT !.t_stat = TStat(x, y, ev)]
    /\ calls' = 1
    /\ UNCHANGED <<prev, wrapVars>>

\* Lines 26-34: the returned dict.
TTestReturn ==
    /\ pc = "ret" /\ caller = "ttest_two_samples"
    /\ stats' = [N_x |-> Len(groups[1]), N_y |-> Len(groups[2]),
                 Mean_x |-> Mean(groups[1]), Mean_y |-> Mean(groups[2]),
                 t_stat |-> stats.t_stat, p_perm |-> result]
    /\ pc' = "done"
    /\ UNCHANGED <<caller, groups, stat_func, num_samples, two_sided, random_seed,
                   rng, t_obs, flat, sizes, hits, iter, t, inc, result, error,
                   calls, trace, prev, wrapVars>>

Next ==
    \/ PermCall
    \/ PermIter
    \/ PermReturn
    \/ PermCallAgain
    \/ OtherRandomUse
    \/ TTestCall
    \/ TTestReturn

Spec == Init /\ [][Next]_vars


\* ----------------------------------------- the fully separated groups
\* Two groups without overlap and without spread.
GroupA == <<10, 10, 10, 10, 10>>
GroupB == <<0, 0, 0, 0, 0>>

\* ttest_two_samples(A, B, ...)
SeparatedTTestCall ==
    /\ pc = "idle"
    /\ \E ev \in BOOLEAN, n \in 1..MaxSamples :
          /\ Enter("ttest_two_samples", <<GroupA, GroupB>>,
                   IF ev THEN "ttest_student" ELSE "ttest_welch", n, FALSE, NoSeed)
          /\ stats' = [NoStats EXCEPT !.t_stat = TStat(GroupA, GroupB, ev)]
    /\ calls' = 1
    /\ UNCHANGED <<prev, wrapVars>>

\* permutation_pvalue([A, B], t statistic, two_sided=True, ...)
SeparatedPermCall ==
    /\ pc = "idle"
    /\ \E f \in StatFuncs, n \in 1..MaxSamples, seed \in Seeds \cup {NoSeed} :
          Enter("direct", <<GroupA, GroupB>>, f, n, TRUE, seed)
    /\ calls' = 1
    /\ UNCHANGED <<stats, prev, wrapVars>>

NextSeparated ==
    \/ SeparatedTTestCall
    \/ SeparatedPermCall
    \/ PermIter
    \/ PermReturn
    \/ TTestReturn

SpecSeparated == Init /\ [][NextSeparated]_vars

\* ------------------------------------- anova_oneway, chi2_independence
\* scipy.stats.f_oneway(*groups) raises TypeError for fewer than two
\* samples; for two or more it returns the F statistic of the formula of
\* _f_statistic (NaN or infinite for degenerate samples, without raising).
FOnewayRaises(gs) == Len(gs) < 2

\* anova_oneway, lines 65-74: the classical test, then the engine on
\* _f_statistic, one-sided.
AnovaCall ==
    /\ pc = "idle"
    /\ \E gs \in GroupSets, n \in 1..MaxSamples, seed \in Seeds \cup {NoSeed} :
          IF FOnewayRaises(gs)
          THEN /\ pc' = "raised" /\ error' = "TypeError"
               /\ caller' = "anova_oneway"
               /\ groups' = gs /\ stat_func' = "_f_statistic" /\ num_samples' = n
               /\ two_sided' = FALSE /\ random_seed' = seed
               /\ UNCHANGED <<rng, t_obs, flat, sizes, hits, iter, t, inc, result,
                              trace>>
          ELSE Enter("anova_oneway", gs, "_f_statistic", n, FALSE, seed)
    /\ calls' = 1
    /\ UNCHANGED <<stats, prev, wrapVars>>

\* anova_oneway, lines 76-80: the returned dict.
AnovaReturn ==
    /\ pc = "ret" /\ caller = "anova_oneway"
    /\ ret' = [f_statistic |-> FStat(groups), p_perm |-> result]
    /\ pc' = "done"
    /\ UNCHANGED <<caller, error, engineLocals, df, top_times, categories,
                   num_permutations, equal_var, alpha, baseline, idx, rows, res>>
    /\ UNCHANGED moreVars

\* chi2_independence, lines 110-130: the statistic of the observed table
\* (which raises for no group, for a table without cells and for an empty
\* group), the same table again for the classical p-value, then the engine
\* on _chi2_statistic, one-sided.
Chi2Call ==
    /\ pc = "idle"
    /\ \E gs \in GroupSets, n \in 1..MaxSamples, seed \in Seeds \cup {NoSeed} :
          IF StatRaises("_chi2_statistic", gs)
          THEN /\ pc' = "raised" /\ error' = StatError("_chi2_statistic")
               /\ caller' = "chi2_independence"
               /\ groups' = gs /\ stat_func' = "_chi2_statistic" /\ num_samples' = n
               /\ two_sided' = FALSE /\ random_seed' = seed
               /\ UNCHANGED <<rng, t_obs, flat, sizes, hits, iter, t, inc, result,
                              trace>>
          ELSE Enter("chi2_independence", gs, "_chi2_statistic", n, FALSE, seed)
    /\ calls' = 1
    /\ UNCHANGED <<stats, prev, wrapVars>>

\* The classical p-value, chi2.sf(statistic, dof), kept as its arguments;
\* chi2_contingency returns 1 for a table without a degree of freedom.
PParam(tb) == [chi2 |-> Chi2Stat(tb), dof |-> Dof(tb), one |-> Dof(tb) = 0]

\* chi2_independence, lines 132-136: the returned dict.
Chi2Return ==
    /\ pc = "ret" /\ caller = "chi2_independence"
    /\ ret' = [chi2_statistic |-> t_obs,
               p_parametric |-> PParam(ContingencyTable(groups)),
               p_perm |-> result]
    /\ pc' = "done"
    /\ UNCHANGED <<caller, error, engineLocals, df, top_times, categories,
                   num_permutations, equal_var, alpha, baseline, idx, rows, res>>
    /\ UNCHANGED moreVars

NextTests ==
    \/ AnovaCall
    \/ Chi2Call
    \/ PermIter
    \/ PermReturn
    \/ AnovaReturn
    \/ Chi2Return

SpecTests == Init /\ [][NextTests]_vars


\* ----------------------------- the statistic functions on their own
\* Labels and observation values, and the longest group, of a call of a
\* statistic function.
FnVals == {0, 1, 2}
MaxCount == 4

FnGroups == SeqsUpTo(Vals, MaxCount) \cup SeqsUpTo(FnVals, 2)
FnGroupSets == SeqsUpTo(FnGroups, 2) \cup [1..3 -> SeqsUpTo(FnVals, 2)]

\* The arguments of a call that has not been made yet.
InitFn ==
    /\ pc = "idle" /\ caller = None
    /\ groups \in FnGroupSets
    /\ stat_func = None /\ num_samples = 0
    /\ two_sided = FALSE /\ random_seed = NoSeed /\ rng = Entropy
    /\ t_obs = NaN /\ flat = <<>> /\ sizes = <<>> /\ hits = 0 /\ iter = 0
    /\ t = NaN /\ inc = 0 /\ result = NoResult /\ error = None /\ stats = NoStats
    /\ calls = 0 /\ trace = <<>> /\ prev = NoPrev
    /\ WrapIdle

\* f(groups) for one of the statistic functions of tests.py: the value
\* returned (for _chi2_statistic with its table), or the exception.
StatCall(f) ==
    /\ pc = "idle"
    /\ caller' = f /\ stat_func' = f
    /\ IF StatRaises(f, groups)
       THEN pc' = "raised" /\ error' = StatError(f) /\ t' = t /\ res' = res
       ELSE /\ pc' = "done" /\ error' = error
            /\ t' = StatApply(f, groups)
            /\ res' = IF f = "_chi2_statistic" THEN ContingencyTable(groups) ELSE res
    /\ UNCHANGED <<groups, num_samples, two_sided, random_seed, rng, t_obs, flat,
                   sizes, hits, iter, inc, result, stats, calls, trace, prev,
                   df, top_times, categories, num_permutations, equal_var, alpha,
                   baseline, idx, rows, ret, moreVars>>

\* _f_statistic(groups)
FStatisticCall ==
    /\ pc = "idle"
    /\ StatCall("_f_statistic")

\* _chi2_statistic(groups)
Chi2StatisticCall ==
    /\ pc = "idle"
    /\ StatCall("_chi2_statistic")

\* The stat_func of ttest_two_samples, equal_var=True and equal_var=False.
StudentTCall ==
    /\ pc = "idle"
    /\ StatCall("ttest_student")

WelchTCall ==
    /\ pc = "idle"
    /\ StatCall("ttest_welch")

NextFn ==
    \/ FStatisticCall
    \/ Chi2StatisticCall
    \/ StudentTCall
    \/ WelchTCall

SpecFn == InitFn /\ [][NextFn]_vars

\* ------------------------------------------------------ the data frame
\* A row of the table: its time slot, the number of news items, the
\* number of items of each tracked category and the outcome (|Return|),
\* which may be missing.
NA == [na |-> TRUE, v |-> 0]
Obs(x) == [na |-> FALSE, v |-> x]

CatNames == {"A", "B", "C"}
NoCats == [c \in CatNames |-> 0]
Only(c) == [NoCats EXCEPT ![c] = 1]

Row(time, ev, cats, r) == [time |-> time, event_count |-> ev, cat |-> cats, ret |-> r]

\* n rows of one kind, their outcomes alternating.
Block(time, ev, cats, n) == [k \in 1..n |-> Row(time, ev, cats, Obs(k % 2))]

Range(s) == {s[k] : k \in DOMAIN s}

\* df[time_col].isin(top_times)
IsIn(x, lst) == x \in Range(lst)

\* df.loc[mask, return_col].dropna().to_numpy(), of the rows the mask keeps
Returns(d) ==
    LET kept == SelectSeq(d, LAMBDA r : ~r.ret.na)
    IN  [k \in 1..Len(kept) |-> kept[k].ret.v]

Min(a, b) == IF a <= b THEN a ELSE b

\* Probabilities are counted in millionths where the code has rounded them.
Million == 1000000

\* DataFrame.round(6) of the probability p.num / p.den (half to even).
Round6(p) ==
    LET a == p.num * Million
        q == a \div p.den
        r == a % p.den
    IN  IF 2 * r > p.den \/ (2 * r = p.den /\ q % 2 = 1) THEN q + 1 ELSE q

\* The hit counts permutation_pvalue can end with for the two-sample t
\* statistic of (x, y): none when the observed statistic is undefined (no
\* comparison with NaN is true), else any count of 0..n, by the reshuffles
\* drawn.
PermHits(x, y, ev, n) == IF TStat(x, y, ev).nan THEN {0} ELSE 0..n

\* Significance thresholds tried, in millionths (0.05 is the default).
Alphas == {50000, 500000, 600000}

\* --------------------------------------------- show_category_ttests
\* Minimum sample size of a category and of the baseline.
MinObs == 5
\* Largest block of rows of one kind.
MaxObs == 5
ObsCounts == {0} \cup ((MinObs - 1) .. MaxObs)

\* Lines 151-152: outcomes of the top-time rows without any news.
Baseline(d, top) ==
    Returns(SelectSeq(d, LAMBDA r : IsIn(r.time, top) /\ r.event_count = 0))

\* Lines 156-158: outcomes of the top-time rows with news of the category.
CatGroup(d, top, c) ==
    Returns(SelectSeq(d, LAMBDA r : IsIn(r.time, top) /\ r.cat[c] > 0))

\* A sample-size test that leaves out the minimum itself.
QualifiesAbove(group, base) == Len(group) > MinObs /\ Len(base) > MinObs

\* Line 161: if group.size >= 5 and baseline.size >= 5
Qualifies(group, base) == Len(group) >= MinObs /\ Len(base) >= MinObs

\* A family that counts every category passed in.
FamilySizeOfAll(table, cats) == Len(cats)

\* Line 188: m = len(res)
FamilySize(table, cats) == Len(table)

\* Factors that start one rank late.
HolmFactorsLate(m) == [k \in 1..m |-> m - k]

\* Line 189: holm_factors = m - np.arange(m)
HolmFactors(m) == [k \in 1..m |-> m - (k - 1)]

RECURSIVE SeqMax(_, _)
SeqMax(ps, k) == IF k = 0 THEN 0 ELSE IF ps[k] > SeqMax(ps, k - 1) THEN ps[k]
                                        ELSE SeqMax(ps, k - 1)

\* The step-down adjustment with the cumulative maximum of classic Holm.
HolmAdjustMonotone(ps, f) ==
    [k \in 1..Len(ps) |-> SeqMax([j \in 1..Len(ps) |-> Min(Million, ps[j] * f[j])], k)]

\* An adjustment that lifts every value to that of the rank before it when
\* it would fall below (np.maximum.accumulate on the clipped products).
RECURSIVE HolmAccumulate(_, _, _)
HolmAccumulate(ps, f, k) ==
    IF k = 0 THEN <<>>
    ELSE LET before == HolmAccumulate(ps, f, k - 1)
             own    == Min(Million, ps[k] * f[k])
         IN  Append(before, IF k > 1 /\ before[k - 1] > own THEN before[k - 1] ELSE own)

HolmAdjustAccumulated(ps, f) == HolmAccumulate(ps, f, Len(ps))

\* Line 190: holm_p = np.minimum(1, res["p_perm"].to_numpy() * holm_factors)
HolmAdjust(ps, f) == [k \in 1..Len(ps) |-> Min(Million, ps[k] * f[k])]

\* Lines 182-187: the orders sort_values("p_perm") can leave the rounded
\* records in (equal values in either order).
SortOrders(rs) ==
    {o \in [1..Len(rs) -> 1..Len(rs)] :
        /\ \A a, b \in 1..Len(rs) : a # b => o[a] # o[b]
        /\ \A a, b \in 1..Len(rs) :
              a < b => Round6(rs[o[a]].p_perm) <= Round6(rs[o[b]].p_perm)}

\* Lines 182-191: the sorted table with the adjusted column.
ResTable(rs, o, cats) ==
    LET sorted == [k \in 1..Len(rs) |-> rs[o[k]]]
        m      == FamilySize(sorted, cats)
        ps     == [k \in 1..Len(rs) |-> Round6(sorted[k].p_perm)]
        holm_p == HolmAdjust(ps, HolmFactors(m))
    IN  [k \in 1..Len(rs) |->
            [Category |-> sorted[k].Category, N_with |-> sorted[k].N_with,
             N_baseline |-> sorted[k].N_baseline, t_stat |-> sorted[k].t_stat,
             p_perm |-> ps[k], p_perm_holm |-> holm_p[k]]]

\* Line 193: res.loc[res["p_perm_holm"] < alpha, "Category"].tolist()
SigCats(table, a) ==
    LET kept == SelectSeq(table, LAMBDA r : r.p_perm_holm < a)
    IN  [k \in 1..Len(kept) |-> kept[k].Category]

\* The tables tried: a block of baseline rows and one of each of the
\* categories A and B, with or without one more row.
ExtraRows == {<<>>, <<Row("t1", 1, Only("A"), NA)>>,
              <<Row("t2", 1, Only("A"), Obs(1))>>, <<Row("t1", 0, NoCats, NA)>>}

CatDfs ==
    {Block("t1", 0, NoCats, nb) \o Block("t1", 1, Only("A"), na)
        \o Block("t1", 1, Only("B"), nc) \o e :
        nb \in ObsCounts, na \in ObsCounts, nc \in ObsCounts, e \in ExtraRows}

CatTopTimes == {<<"t1">>, <<"t1", "t2">>}
CatLists == {<<"A">>, <<"A", "B">>, <<"B", "A">>}

\* Lines 150-154: the baseline and the empty list of records.
CatTTestsCall ==
    /\ pc = "idle"
    /\ \E d \in CatDfs, top \in CatTopTimes, cats \in CatLists,
          n \in 1..MaxSamples, ev \in BOOLEAN, a \in Alphas :
          /\ df' = d /\ top_times' = top /\ categories' = cats
          /\ num_permutations' = n /\ equal_var' = ev /\ alpha' = a
          /\ baseline' = Baseline(d, top)
    /\ pc' = "ct_loop" /\ caller' = "show_category_ttests"
    /\ idx' = 0 /\ rows' = <<>> /\ res' = <<>> /\ ret' = <<>>
    /\ UNCHANGED <<error, engineLocals>>
    /\ UNCHANGED moreVars

\* Lines 155-176: one category; a qualifying one is t-tested against the
\* baseline and its record appended.
CatTTestsIter ==
    /\ pc = "ct_loop" /\ caller = "show_category_ttests"
    /\ idx < Len(categories)
    /\ LET cat   == categories[idx + 1]
           group == CatGroup(df, top_times, cat)
       IN  IF Qualifies(group, baseline)
           THEN \E h \in PermHits(group, baseline, equal_var, num_permutations) :
                   rows' = Append(rows,
                       [Category |-> cat, N_with |-> Len(group),
                        N_baseline |-> Len(baseline),
                        t_stat |-> TStat(group, baseline, equal_var),
                        p_perm |-> [num |-> h, den |-> num_permutations]])
           ELSE rows' = rows
    /\ idx' = idx + 1
    /\ UNCHANGED <<pc, caller, error, engineLocals, df, top_times, categories,
                   num_permutations, equal_var, alpha, baseline, res, ret>>
    /\ UNCHANGED moreVars

\* Lines 178-211: no record raises; else the records are rounded, sorted,
\* Holm-adjusted and the significant categories returned.
CatTTestsFinish ==
    /\ pc = "ct_loop" /\ caller = "show_category_ttests"
    /\ idx = Len(categories)
    /\ IF rows = <<>>
       THEN /\ pc' = "raised" /\ error' = "ValueError"
            /\ UNCHANGED <<res, ret>>
       ELSE /\ \E o \in SortOrders(rows) :
                  /\ res' = ResTable(rows, o, categories)
                  /\ ret' = SigCats(ResTable(rows, o, categories), alpha)
            /\ pc' = "done" /\ error' = error
    /\ UNCHANGED <<caller, engineLocals, df, top_times, categories,
                   num_permutations, equal_var, alpha, baseline, idx, rows>>
    /\ UNCHANGED moreVars

NextCat ==
    \/ CatTTestsCall
    \/ CatTTestsIter
    \/ CatTTestsFinish

SpecCat == Init /\ [][NextCat]_vars

\* The table step alone, over families of raw p-values: the state after
\* the loop of a call with 100 permutations in which every category of
\* the list qualified.
HolmPs == {[num |-> h, den |-> 100] : h \in {0, 1, 2, 3, 4, 20, 60, 100}}
HolmLists == {<<"A">>, <<"A", "B">>, <<"A", "B", "C">>}

RECURSIVE CatBlocks(_)
CatBlocks(cats) ==
    IF cats = <<>> THEN <<>>
    ELSE Block("t1", 1, Only(Head(cats)), MinObs) \o CatBlocks(Tail(cats))

InitHolm ==
    /\ pc = "ct_loop" /\ caller = "show_category_ttests" /\ error = None
    /\ groups = <<>> /\ stat_func = None /\ num_samples = 0
    /\ two_sided = FALSE /\ random_seed = NoSeed /\ rng = Entropy
    /\ t_obs = NaN /\ flat = <<>> /\ sizes = <<>> /\ hits = 0 /\ iter = 0
    /\ t = NaN /\ inc = 0 /\ result = NoResult /\ stats = NoStats
    /\ calls = 0 /\ trace = <<>> /\ prev = NoPrev
    /\ \E cats \in HolmLists, a \in Alphas :
          /\ categories = cats /\ alpha = a
          /\ df = Block("t1", 0, NoCats, MinObs) \o CatBlocks(cats)
          /\ \E ps \in [1..Len(cats) -> HolmPs] :
                rows = [k \in 1..Len(cats) |->
                          [Category |-> cats[k], N_with |-> MinObs, N_baseline |-> MinObs,
                           t_stat |-> TStat(CatGroup(df, <<"t1">>, cats[k]),
                                            Baseline(df, <<"t1">>), FALSE),
                           p_perm |-> ps[k]]]
    /\ top_times = <<"t1">> /\ num_permutations = 100 /\ equal_var = FALSE
    /\ baseline = Baseline(df, top_times)
    /\ idx = Len(categories) /\ res = <<>> /\ ret = <<>>
    /\ MoreIdle

SpecHolm ==
    /\ InitHolm
    /\ [][CatTTestsFinish]_vars

\* ------------------------------------------------- show_news_ttests
\* Largest block of rows of one slot with, or without, news.
MaxCell == 2

\* Line 26: groups = top_times + ["All Times"]
SlotList(top) == top \o <<"All Times">>

\* Lines 30-33: the rows of a slot; of every top time for "All Times".
SlotMask(r, slot, top) ==
    IF slot = "All Times" THEN IsIn(r.time, top) ELSE r.time = slot

\* Lines 34-35
WithNews(d, slot, top) ==
    Returns(SelectSeq(d, LAMBDA r : SlotMask(r, slot, top) /\ r.event_count > 0))

NoNews(d, slot, top) ==
    Returns(SelectSeq(d, LAMBDA r : SlotMask(r, slot, top) /\ r.event_count = 0))

\* Lines 44-56: the records rounded, one line of the table each.
NewsTable(rs) ==
    [k \in 1..Len(rs) |->
        [Time |-> rs[k].Time, N_with |-> rs[k].N_x, N_without |-> rs[k].N_y,
         t_stat |-> rs[k].t_stat, p_val_perm_t |-> Round6(rs[k].p_perm)]]

\* A selection that forgets to leave the aggregate out.
SigTimesWithAll(table, a) ==
    LET kept == SelectSeq(table, LAMBDA r : r.p_val_perm_t < a)
    IN  [k \in 1..Len(kept) |-> kept[k].Time]

\* Lines 59-61: res.index[(res.index != "All Times") & (p_val_perm_t < alpha)]
SigTimes(table, a) ==
    LET kept == SelectSeq(table, LAMBDA r : r.Time # "All Times" /\ r.p_val_perm_t < a)
    IN  [k \in 1..Len(kept) |-> kept[k].Time]

\* The tables tried: for each of two slots a block of rows with news and
\* one without, and possibly a row whose outcome is missing.
NewsExtra == {<<>>, <<Row("t1", 1, NoCats, NA)>>}

NewsDfs ==
    {Block("t1", 1, NoCats, a) \o Block("t1", 0, NoCats, b)
        \o Block("t2", 1, NoCats, c) \o Block("t2", 0, NoCats, d) \o e :
        a \in 0..MaxCell, b \in 0..MaxCell, c \in 0..MaxCell, d \in 0..MaxCell,
        e \in NewsExtra}

NewsTopTimes == {<<>>, <<"t1">>, <<"t1", "t2">>, <<"t2", "t1">>}

NewsTTestsCall ==
    /\ pc = "idle"
    /\ \E d \in NewsDfs, top \in NewsTopTimes, n \in 1..MaxSamples,
          ev \in BOOLEAN, a \in Alphas :
          /\ df' = d /\ top_times' = top /\ num_permutations' = n
          /\ equal_var' = ev /\ alpha' = a
    /\ pc' = "nt_loop" /\ caller' = "show_news_ttests"
    /\ idx' = 0 /\ rows' = <<>> /\ res' = <<>> /\ ret' = <<>>
    /\ UNCHANGED <<error, engineLocals, categories, baseline>>
    /\ UNCHANGED moreVars

\* Lines 28-41: one slot, its two samples and their t-test.
NewsTTestsIter ==
    /\ pc = "nt_loop" /\ caller = "show_news_ttests"
    /\ idx < Len(SlotList(top_times))
    /\ LET slot      == SlotList(top_times)[idx + 1]
           with_news == WithNews(df, slot, top_times)
           no_news   == NoNews(df, slot, top_times)
       IN  \E h \in PermHits(with_news, no_news, equal_var, num_permutations) :
              rows' = Append(rows,
                  [Time |-> slot, N_x |-> Len(with_news), N_y |-> Len(no_news),
                   t_stat |-> TStat(with_news, no_news, equal_var),
                   p_perm |-> [num |-> h, den |-> num_permutations]])
    /\ idx' = idx + 1
    /\ UNCHANGED <<pc, caller, error, engineLocals, df, top_times, categories,
                   num_permutations, equal_var, alpha, baseline, res, ret>>
    /\ UNCHANGED moreVars

\* Lines 43-69: the table and the significant slots.
NewsTTestsFinish ==
    /\ pc = "nt_loop" /\ caller = "show_news_ttests"
    /\ idx = Len(SlotList(top_times))
    /\ res' = NewsTable(rows)
    /\ ret' = SigTimes(NewsTable(rows), alpha)
    /\ pc' = "done"
    /\ UNCHANGED <<caller, error, engineLocals, df, top_times, categories,
                   num_permutations, equal_var, alpha, baseline, idx, rows>>
    /\ UNCHANGED moreVars

NextNews ==
    \/ NewsTTestsCall
    \/ NewsTTestsIter
    \/ NewsTTestsFinish

SpecNews == Init /\ [][NextNews]_vars

\* ---------------------------------------------- show_category_anova
\* Line 88: the top-time rows with news.
DfNews(d, top) == SelectSeq(d, LAMBDA r : IsIn(r.time, top) /\ r.event_count > 0)

\* Lines 91-92: the tracked categories with news in the row.
NCatActive(r, cats) == Cardinality({k \in 1..Len(cats) : r.cat[cats[k]] > 0})

\* A filter that keeps every row with news of a tracked category.
KeepsAny(r, cats) == NCatActive(r, cats) >= 1

\* Line 93: df_news["n_cat_active"] == 1
KeepsOne(r, cats) == NCatActive(r, cats) = 1

\* Line 93
DfOne(d, top, cats) == SelectSeq(DfNews(d, top), LAMBDA r : KeepsOne(r, cats))

\* Lines 96-100: the first category of the list with news in the row.
RECURSIVE Dominant(_, _)
Dominant(r, cats) ==
    IF cats = <<>> THEN None
    ELSE IF r.cat[Head(cats)] > 0 THEN Head(cats) ELSE Dominant(r, Tail(cats))

\* Lines 104-108: the outcomes labelled with the category.
GroupOf(d, top, cats, c) ==
    Returns(SelectSeq(DfOne(d, top, cats), LAMBDA r : Dominant(r, cats) = c))

\* Lines 88-108: the rows of the table whose outcome is in the group of
\* the category (the rows of df_one labelled with it, less the missing
\* outcomes).
GroupIndex(d, top, cats, c) ==
    {j \in 1..Len(d) :
        /\ IsIn(d[j].time, top) /\ d[j].event_count > 0
        /\ KeepsOne(d[j], cats)
        /\ Dominant(d[j], cats) = c
        /\ ~d[j].ret.na}

\* A filter that keeps a category of a single observation.
SurvivesNonEmpty(g) == Len(g) > 0

\* Line 109: if v.size > 1
Survives(g) == Len(g) > 1

\* Lines 104-109: the categories kept, in the order of the list.
GroupsDictKeys(d, top, cats) ==
    SelectSeq(cats, LAMBDA c : Survives(GroupOf(d, top, cats, c)))

\* The hit counts permutation_pvalue can end with for the F statistic.
AnovaHits(n) == 0..n

\* The tables tried: a block of single-category rows for each of A, B and
\* C, and possibly one more row that belongs to no group.
AnovaExtra ==
    {<<>>,
     <<Row("t1", 2, [NoCats EXCEPT !["A"] = 1, !["B"] = 1], Obs(1))>>,
     <<Row("t2", 1, Only("A"), Obs(1))>>,
     <<Row("t1", 0, Only("A"), Obs(1))>>,
     <<Row("t1", 1, Only("A"), NA)>>,
     <<Row("t1", 1, NoCats, Obs(1))>>,
     <<Row("t1", 2, [NoCats EXCEPT !["A"] = 1, !["C"] = 1], Obs(1))>>}

AnovaDfs ==
    {Block("t1", 1, Only("A"), a) \o Block("t1", 1, Only("B"), b)
        \o Block("t1", 1, Only("C"), c) \o e :
        a \in 0..MaxCell, b \in 0..MaxCell, c \in 0..MaxCell, e \in AnovaExtra}

AnovaLists == {<<"A", "B">>, <<"A", "B", "C">>, <<"C", "A">>}

\* Lines 87-113: the groups; fewer than two raise, else anova_oneway is
\* called with them: permutation_pvalue(groups, _f_statistic, ...) seeds
\* the generator and reshuffles the pooled copy num_permutations times.
CategoryAnovaCall ==
    /\ pc = "idle"
    /\ \E d \in AnovaDfs, top \in CatTopTimes, cats \in AnovaLists,
          n \in 1..MaxSamples, seed \in Seeds \cup {NoSeed} :
          LET keys == GroupsDictKeys(d, top, cats)
              gs   == [k \in 1..Len(keys) |-> GroupOf(d, top, cats, keys[k])]
          IN  /\ df' = d /\ top_times' = top /\ categories' = cats
              /\ num_permutations' = n
              /\ rows' = keys
              /\ IF Len(keys) < 2
                 THEN /\ pc' = "raised" /\ error' = "ValueError"
                      /\ UNCHANGED engineLocals
                 ELSE /\ pc' = "an_call" /\ error' = error
                      /\ groups' = gs /\ stat_func' = "_f_statistic"
                      /\ num_samples' = n /\ two_sided' = FALSE
                      /\ random_seed' = seed
                      /\ rng' = LET g == SeedRng(rng, seed)
                                IN  IF g.seeded
                                    THEN [g EXCEPT !.n = g.n + n * DrawsOf(Concatenate(gs))]
                                    ELSE g
                      /\ UNCHANGED <<t_obs, flat, sizes, hits, iter, t, inc, result,
                                     stats, calls, trace, prev>>
    /\ caller' = "show_category_anova"
    /\ idx' = 0 /\ res' = <<>> /\ ret' = <<>>
    /\ UNCHANGED <<equal_var, alpha, baseline>>
    /\ UNCHANGED moreVars

\* Lines 116-131: the result of anova_oneway with the two added entries.
CategoryAnovaReturn ==
    /\ pc = "an_call" /\ caller = "show_category_anova"
    /\ \E h \in AnovaHits(num_samples) :
          ret' = [p_perm |-> [num |-> h, den |-> num_samples],
                  num_groups |-> Len(rows),
                  group_sizes |-> [c \in Range(rows) |->
                                     Len(GroupOf(df, top_times, categories, c))]]
    /\ pc' = "done"
    /\ UNCHANGED <<caller, error, engineLocals, df, top_times, categories,
                   num_permutations, equal_var, alpha, baseline, idx, rows, res>>
    /\ UNCHANGED moreVars

NextAnova ==
    \/ CategoryAnovaCall
    \/ CategoryAnovaReturn

SpecAnova == Init /\ [][NextAnova]_vars

\* ------------------------------------------------ confidence_intervals
\* Columns of the series, and a row of the table with a value (or a missing
\* value) in each of them.
ColNames == {"|Return|", "Return"}

CIRow(time, ev, vals) == [time |-> time, event_count |-> ev, val |-> vals]

\* n rows of one kind: |Return| alternates, Return is known in the first
\* row with news only.
CIBlock(time, ev, n) ==
    [k \in 1..n |->
        CIRow(time, ev, [c \in ColNames |->
            IF c = "|Return|" THEN Obs(k % 2)
            ELSE IF k = 1 /\ ev > 0 THEN Obs(1) ELSE NA])]

\* Largest block of rows of one kind, and largest n_bootstrap tried.
MaxCI == 2
MaxBoot == 2

CIDfs ==
    {CIBlock("t1", 1, a) \o CIBlock("t1", 0, b) \o e :
        a \in 0..MaxCI, b \in 0..1, e \in {<<>>, CIBlock("t2", 1, 1)}}

\* cols: one name, or a list of names (lines 126-127 make it a list).
ColsArgs ==
    {[is_str |-> TRUE, name |-> "|Return|", list |-> <<>>]}
    \cup {[is_str |-> FALSE, name |-> None, list |-> l] :
            l \in {<<>>, <<"|Return|">>, <<"Return">>, <<"|Return|", "Return">>}}

ColsList(arg) == IF arg.is_str THEN <<arg.name>> ELSE arg.list

\* Lines 130-134: the masks, in the order of the dict.
CIGroups == <<"With News", "Without News", "All Times">>

CIMask(r, top, grp) ==
    /\ IsIn(r.time, top)
    /\ grp = "With News" => r.event_count > 0
    /\ grp = "Without News" => r.event_count = 0

\* Line 139: df.loc[mask, col].dropna().to_numpy()
CIData(d, top, grp, col) ==
    LET kept == SelectSeq(d, LAMBDA r : CIMask(r, top, grp) /\ ~r.val[col].na)
    IN  [k \in 1..Len(kept) |-> kept[k].val[col].v]

\* A number of the result, in ten-thousandths after .round(4).
TenThousand == 10000

Round4(n, d) ==
    LET a == n * TenThousand
        q == a \div d
        r == a % d
    IN  IF 2 * r > d \/ (2 * r = d /\ q % 2 = 1) THEN q + 1 ELSE q

Missing == [na |-> TRUE, v |-> 0, se2 |-> <<0, 1>>, side |-> 0]
Number(n, d) == [na |-> FALSE, v |-> Round4(n, d), se2 |-> <<0, 1>>, side |-> 0]

\* mean -/+ z * s / sqrt(n), kept as the rounded mean, the side and the
\* squared standard error s^2 / n = (n * Q - S^2) / (n^2 * (n - 1)).
ZBound(arr, side) ==
    LET n == Len(arr)
    IN  [na |-> FALSE, v |-> Round4(SeqSum(arr), n),
         se2 |-> <<n * SeqSumSq(arr) - SeqSum(arr) * SeqSum(arr), n * n * (n - 1)>>,
         side |-> side]

\* A classical interval computed from a single observation on.
ClassicCIFromOne(arr) ==
    IF Len(arr) < 1
    THEN [mean |-> Missing, ci_lower |-> Missing, ci_upper |-> Missing, n_obs |-> Len(arr)]
    ELSE [mean |-> Number(SeqSum(arr), Len(arr)),
          ci_lower |-> Number(SeqSum(arr), Len(arr)),
          ci_upper |-> Number(SeqSum(arr), Len(arr)), n_obs |-> Len(arr)]

\* _classic_ci, lines 104-113
ClassicCI(arr) ==
    IF Len(arr) < 2
    THEN [mean |-> Missing, ci_lower |-> Missing, ci_upper |-> Missing, n_obs |-> Len(arr)]
    ELSE [mean |-> Number(SeqSum(arr), Len(arr)),
          ci_lower |-> ZBound(arr, 0 - 1), ci_upper |-> ZBound(arr, 1),
          n_obs |-> Len(arr)]

\* confidence, in per cent (the default).
Confidence == 95

\* The sums a resample of arr (len(arr) draws with replacement) can have.
ResampleSums(arr) == {SeqSum(r) : r \in [1..Len(arr) -> Range(arr)]}

\* The ascending sequences of nb resample sums.
SortedBoots(arr, nb) ==
    {b \in [1..nb -> ResampleSums(arr)] : \A i \in 1..(nb - 1) : b[i] <= b[i + 1]}

\* np.quantile(boot_means, q), q = qn / 200, by linear interpolation
\* between the order statistics; b holds the sorted sums, a mean is a sum
\* divided by n.
Quantile(b, n, qn) ==
    LET h    == qn * (Len(b) - 1)
        lo   == h \div 200
        frac == h % 200
    IN  IF frac = 0 THEN Number(b[lo + 1], n)
        ELSE Number(200 * b[lo + 1] + frac * (b[lo + 2] - b[lo + 1]), 200 * n)

\* _bootstrap_ci, lines 115-123: what it returns or raises.  A negative
\* n_bootstrap is a negative dimension for np.random.choice; np.quantile of
\* no resample is NaN or an IndexError, by the version of the library.
BootstrapOutcomes(arr, nb) ==
    IF Len(arr) = 0
    THEN {[raised |-> None, mean |-> Missing, ci_lower |-> Missing,
           ci_upper |-> Missing, n_obs |-> 0]}
    ELSE IF nb < 0
    THEN {[raised |-> "ValueError", mean |-> Missing, ci_lower |-> Missing,
           ci_upper |-> Missing, n_obs |-> Len(arr)]}
    ELSE IF nb = 0
    THEN {[raised |-> e, mean |-> Number(SeqSum(arr), Len(arr)),
           ci_lower |-> Missing, ci_upper |-> Missing, n_obs |-> Len(arr)] :
              e \in {None, "IndexError"}}
    ELSE {[raised |-> None, mean |-> Number(SeqSum(arr), Len(arr)),
           ci_lower |-> Quantile(b, Len(arr), 100 - Confidence),
           ci_upper |-> Quantile(b, Len(arr), 100 + Confidence),
           n_obs |-> Len(arr)] : b \in SortedBoots(arr, nb)}

\* Lines 125-134: the list of columns and the masks.
CICall ==
    /\ pc = "idle"
    /\ \E d \in CIDfs, top \in CatTopTimes, arg \in ColsArgs, nb \in (0 - 1)..MaxBoot :
          /\ df' = d /\ top_times' = top /\ cols' = ColsList(arg) /\ n_bootstrap' = nb
    /\ pc' = "ci_loop" /\ caller' = "confidence_intervals"
    /\ idx' = 0 /\ rows' = <<>> /\ res' = <<>> /\ ret' = <<>>
    /\ UNCHANGED <<error, engineLocals, categories, num_permutations, equal_var, alpha,
                   baseline, model, out, prio_map, absret_threshold, prepVars>>

\* Lines 137-141: one group and one column, the groups in the outer loop:
\* the classical row, then the bootstrap row unless _bootstrap_ci raises.
CIIter ==
    /\ pc = "ci_loop" /\ caller = "confidence_intervals"
    /\ idx < Len(CIGroups) * Len(cols)
    /\ LET grp  == CIGroups[(idx \div Len(cols)) + 1]
           col  == cols[(idx % Len(cols)) + 1]
           data == CIData(df, top_times, grp, col)
           key(m) == [Group |-> grp, series |-> col, method |-> m]
           cl   == ClassicCI(data)
       IN  \E bo \in BootstrapOutcomes(data, n_bootstrap) :
              IF bo.raised # None
              THEN /\ pc' = "raised" /\ error' = bo.raised
                   /\ rows' = Append(rows, [key |-> key("Classical"), mean |-> cl.mean,
                                 ci_lower |-> cl.ci_lower, ci_upper |-> cl.ci_upper,
                                 n_obs |-> cl.n_obs])
                   /\ idx' = idx
              ELSE /\ pc' = pc /\ error' = error
                   /\ rows' = rows \o
                        <<[key |-> key("Classical"), mean |-> cl.mean,
                           ci_lower |-> cl.ci_lower, ci_upper |-> cl.ci_upper,
                           n_obs |-> cl.n_obs],
                          [key |-> key("Bootstrap"), mean |-> bo.mean,
                           ci_lower |-> bo.ci_lower, ci_upper |-> bo.ci_upper,
                           n_obs |-> bo.n_obs]>>
                   /\ idx' = idx + 1
    /\ UNCHANGED <<caller, engineLocals, df, top_times, categories, num_permutations,
                   equal_var, alpha, baseline, res, ret, cols, n_bootstrap, model, out,
                   prio_map, absret_threshold, prepVars>>

\* The order of sort_values(["series", "Group", "method"]): strings by
\* their code points ("Return" < "|Return|", "All Times" < "With News" <
\* "Without News", "Bootstrap (...)" < "Classical").
KeyRank(k) ==
    (IF k.series = "Return" THEN 0 ELSE 6)
    + (IF k.Group = "All Times" THEN 0 ELSE IF k.Group = "With News" THEN 2 ELSE 4)
    + (IF k.method = "Bootstrap" THEN 0 ELSE 1)

\* Lines 143-148: the rows sorted by their keys (the numbers were rounded
\* when the rows were built).
RECURSIVE ByKey(_)
ByKey(S) ==
    IF S = {} THEN <<>>
    ELSE LET m == CHOOSE r \in S : \A q \in S : KeyRank(r.key) <= KeyRank(q.key)
         IN  <<m>> \o ByKey(S \ {m})

SortedRows(rs) == ByKey(Range(rs))

\* Without rows the frame has no column to sort by: KeyError.
CIFinish ==
    /\ pc = "ci_loop" /\ caller = "confidence_intervals"
    /\ idx = Len(CIGroups) * Len(cols)
    /\ IF rows = <<>>
       THEN pc' = "raised" /\ error' = "KeyError" /\ res' = res
       ELSE pc' = "done" /\ error' = error /\ res' = SortedRows(rows)
    /\ UNCHANGED <<caller, engineLocals, df, top_times, categories, num_permutations,
                   equal_var, alpha, baseline, idx, rows, ret, cols, n_bootstrap, model,
                   out, prio_map, absret_threshold, prepVars>>

NextCI ==
    \/ CICall
    \/ CIIter
    \/ CIFinish

SpecCI == Init /\ [][NextCI]_vars

\* ------------------------------------------- mlr, evaluate_regression
\* Largest number of samples (rows of X) tried.
MaxRows == 4

\* train_test_split(..., train_size=0.7): floor(0.7 * n) training rows.
TrainSize(n) == (7 * n) \div 10

\* train_test_split raises ValueError when a part would be empty.
SplitRaises(n) == TrainSize(n) = 0 \/ n - TrainSize(n) = 0

\* weight: None, an array of the length of X, or an array of another length.
Weights == {"None", "array", "short array"}

\* A bootstrap that also runs for a count of zero.
MlrBootstrapsFromZero(nb) == nb >= 0

\* Line 59: if n_bootstrap and n_bootstrap > 0
MlrBootstraps(nb) == nb # 0 /\ nb > 0

\* The training part: its rows, targets and weights, each known by its
\* position in the part.
XTrain(m) == [k \in 1..m |-> [row |-> k]]
YTrain(m) == [k \in 1..m |-> [target |-> k]]
WTrain(m) == [k \in 1..m |-> [weight |-> k]]

\* RandomState(seed).randint(0, high): the n-th value of the stream of the
\* generator object of mlr, a fixed function of the seed and of the
\* position in the stream, in 0..high-1.
RandInt(seed, n, high) == ((seed + 3) * (n + 1) + (n \div high) + n * n) % high

\* A generator created anew for every resample: every resample draws the
\* first m values of the stream.
BootIdxRestarted(seed, m, i) == [k \in 1..m |-> RandInt(seed, k - 1, m)]

\* Line 64: idx = rng.randint(0, len(X_train), len(X_train)), the i-th
\* batch of m draws of RandomState(random_state), each of 0..m-1.
BootIdx(seed, m, i) == [k \in 1..m |-> RandInt(seed, (i - 1) * m + (k - 1), m)]

\* Lines 65-69: X_train[idx], y_train[idx], w_train[idx] (0-based indices).
Take(a, ix) == [k \in 1..Len(ix) |-> a[ix[k] + 1]]

\* Lines 70-72: LinearRegression().fit(X_bs, y_bs, sample_weight=w_bs); the
\* row written is the intercept followed by the nf coefficients, each a
\* function of the resample that was fitted.
Refit(X_bs, y_bs, w_bs, nf) ==
    [j \in 1..(nf + 1) |-> [term |-> j - 1, X |-> X_bs, y |-> y_bs, w |-> w_bs]]

\* Lines 60-72: the refit coefficients, one row per resample (w_bs is None
\* without weights).
BootCoefs(seed, m, nb, nf, weighted) ==
    [i \in 1..nb |->
        LET ix == BootIdx(seed, m, i)
        IN  Refit(Take(XTrain(m), ix), Take(YTrain(m), ix),
                  IF weighted THEN Take(WTrain(m), ix) ELSE <<>>, nf)]

\* mlr, lines 25-89
MlrCall ==
    /\ pc = "idle"
    /\ \E n \in 0..MaxRows, w \in Weights, seed \in {1, 42},
          nb \in (0 - 1)..MaxBoot, ci \in {90, Confidence}, nf \in 1..2 :
          /\ n_bootstrap' = nb
          /\ random_seed' = [some |-> TRUE, val |-> seed]
          /\ IF w = "short array" \/ SplitRaises(n)
             THEN /\ pc' = "raised" /\ error' = "ValueError"
                  /\ model' = model
             ELSE /\ pc' = "fitted" /\ error' = error
                  /\ model' =
                       [fitted |-> TRUE,
                        boot_coefs_ |-> IF MlrBootstraps(nb)
                                        THEN BootCoefs(seed, TrainSize(n), nb, nf,
                                                       w = "array")
                                        ELSE <<>>,
                        has_boot |-> MlrBootstraps(nb),
                        has_conf_int |-> MlrBootstraps(nb),
                        ci_ |-> ci, n_train |-> TrainSize(n), n_feats |-> nf,
                        weighted |-> w = "array"]
    /\ caller' = "mlr"
    /\ UNCHANGED <<groups, stat_func, num_samples, two_sided, rng, t_obs, flat, sizes,
                   hits, iter, t, inc, result, stats, calls, trace, prev,
                   df, top_times, categories, num_permutations, equal_var, alpha,
                   baseline, idx, rows, res, ret, cols, out, prio_map,
                   absret_threshold, prepVars>>

\* evaluate_regression, lines 67-161: the coefficient table with the
\* intervals of conf_int_ if the model has it; the prediction interval of
\* the last test sample and the plot with intervals only with boot_coefs_.
EvaluateRegression ==
    /\ pc = "fitted" /\ caller = "mlr"
    /\ \E show_last_row_interval \in BOOLEAN, plot_test_set \in BOOLEAN :
          out' = [coef_ci |-> model.has_conf_int,
                  interval |-> show_last_row_interval /\ model.has_boot,
                  plot |-> IF plot_test_set /\ model.has_boot THEN "intervals"
                           ELSE IF plot_test_set THEN "no bootstrap information"
                           ELSE None]
    /\ pc' = "done"
    /\ UNCHANGED <<caller, error, engineLocals, df, top_times, categories,
                   num_permutations, equal_var, alpha, baseline, idx, rows, res, ret,
                   cols, n_bootstrap, model, prio_map, absret_threshold, prepVars>>

NextBoot ==
    \/ CICall
    \/ CIIter
    \/ CIFinish
    \/ MlrCall
    \/ EvaluateRegression

SpecBoot == Init /\ [][NextBoot]_vars

\* ------------------------------------------- show_priority_return_chi2
\* n top-time rows with news of the categories cats, their outcomes
\* running through 0, 1, 2 from off on.
PrioBlock(cats, n, off) ==
    [k \in 1..n |-> Row("t1", 1, cats, Obs((k + off) % 3))]

AandB == [NoCats EXCEPT !["A"] = 1, !["B"] = 1]

\* One more row: outside the top times, without outcome, with news of an
\* untracked category only, without any news.
PrioExtra ==
    {<<>>,
     <<Row("t2", 1, Only("B"), Obs(2))>>,
     <<Row("t1", 1, Only("A"), NA)>>,
     <<Row("t1", 1, Only("C"), Obs(2))>>,
     <<Row("t1", 0, NoCats, Obs(0))>>}

PrioDfs ==
    {PrioBlock(Only("A"), a, 0) \o PrioBlock(Only("B"), b, 1)
        \o PrioBlock(AandB, c, 2) \o e :
        a \in 0..MaxCell, b \in 0..MaxCell, c \in 0..1, e \in PrioExtra}

\* prio_map: the priority of each tracked category.
PrioMaps ==
    {[c \in {"A", "B"} |-> IF c = "A" THEN 1 ELSE 2],
     [c \in {"A", "B"} |-> IF c = "A" THEN 2 ELSE 1],
     [c \in {"A", "B"} |-> 1],
     [c \in {"A"} |-> 3]}

\* absret_threshold: "median", or a number.
Thresholds ==
    {[median |-> TRUE, v |-> 0]} \cup {[median |-> FALSE, v |-> x] : x \in 0..2}

\* Lines 232-239: the largest priority among the categories with news in
\* the row; NaN (na) when there is none.
SetMax(S) == CHOOSE x \in S : \A y \in S : y <= x

\* A priority taken from the first tracked category with news.
NewsPrioFirst(r, pm) ==
    LET active == {c \in DOMAIN pm : r.cat[c] > 0}
    IN  IF active = {} THEN NA
        ELSE Obs(pm[CHOOSE c \in active : \A e \in active : pm[c] <= pm[e]])

NewsPrio(r, pm) ==
    LET active == {c \in DOMAIN pm : r.cat[c] > 0}
    IN  IF active = {} THEN NA ELSE Obs(SetMax({pm[c] : c \in active}))

\* Series.median(), doubled: missing values are skipped, an even number of
\* values gives the mean of the two in the middle, no value gives NaN.
RECURSIVE SortInts(_)
SortInts(s) ==
    IF s = <<>> THEN <<>>
    ELSE LET k == CHOOSE i \in 1..Len(s) : \A j \in 1..Len(s) : s[i] <= s[j]
         IN  <<s[k]>> \o SortInts(SubSeq(s, 1, k - 1) \o SubSeq(s, k + 1, Len(s)))

Median2(d) ==
    LET v == SortInts(Returns(d))
        n == Len(v)
    IN  IF n = 0 THEN NA
        ELSE IF n % 2 = 1 THEN Obs(2 * v[(n + 1) \div 2])
        ELSE Obs(v[n \div 2] + v[(n \div 2) + 1])

\* Line 243: the threshold, doubled.
Thr2(d, th) == IF th.median THEN Median2(d) ELSE Obs(2 * th.v)

\* Line 244: (abs_ret >= thr).astype(int); a comparison with NaN is false.
HighAbsRet(r, thr2) ==
    IF r.ret.na \/ thr2.na THEN 0 ELSE IF 2 * r.ret.v >= thr2.v THEN 1 ELSE 0

\* Lines 231-245: the top-time rows with their two new columns, those
\* without priority dropped.
PrioRows(d, top, pm, th) ==
    LET sub  == SelectSeq(d, LAMBDA r : IsIn(r.time, top))
        thr2 == Thr2(sub, th)
        all  == [k \in 1..Len(sub) |->
                    [News_Prio |-> NewsPrio(sub[k], pm),
                     HighAbsRet |-> HighAbsRet(sub[k], thr2)]]
    IN  SelectSeq(all, LAMBDA r : ~r.News_Prio.na)

\* Lines 248-251: one array per priority level, ascending.
PrioGroups(rs) ==
    LET levels == Unique({rs[k].News_Prio.v : k \in 1..Len(rs)})
    IN  [i \in 1..Len(levels) |->
            LET sel == SelectSeq(rs, LAMBDA r : r.News_Prio.v = levels[i])
            IN  [k \in 1..Len(sel) |-> sel[k].HighAbsRet]]

\* The hit counts permutation_pvalue can end with for the chi-square
\* statistic of the groups: a table without a degree of freedom has the
\* statistic 0 in every reshuffle.
Chi2Hits(gs, n) == IF Dof(ContingencyTable(gs)) = 0 THEN {n} ELSE 0..n

\* Lines 231-258: the groups; chi2_independence is called with them
\* unchecked and raises for no group (np.concatenate); else it seeds the
\* generator and reshuffles the pooled copy num_permutations times.
PriorityChi2Call ==
    /\ pc = "idle"
    /\ \E d \in PrioDfs, top \in CatTopTimes, pm \in PrioMaps, th \in Thresholds,
          n \in {MaxSamples}, seed \in Seeds \cup {NoSeed} :
          LET rs == PrioRows(d, top, pm, th)
              gs == PrioGroups(rs)
          IN  /\ df' = d /\ top_times' = top /\ prio_map' = pm
              /\ absret_threshold' = th /\ num_permutations' = n
              /\ rows' = rs
              /\ groups' = gs /\ stat_func' = "_chi2_statistic"
              /\ num_samples' = n /\ two_sided' = FALSE /\ random_seed' = seed
              /\ IF StatRaises("_chi2_statistic", gs)
                 THEN /\ pc' = "raised" /\ error' = StatError("_chi2_statistic")
                      /\ rng' = rng
                 ELSE /\ pc' = "pr_call" /\ error' = error
                      /\ rng' = LET g == SeedRng(rng, seed)
                                IN  IF g.seeded
                                    THEN [g EXCEPT !.n = g.n + n * DrawsOf(Concatenate(gs))]
                                    ELSE g
    /\ caller' = "show_priority_return_chi2"
    /\ idx' = 0 /\ res' = <<>> /\ ret' = <<>>
    /\ UNCHANGED <<t_obs, flat, sizes, hits, iter, t, inc, result, stats, calls, trace,
                   prev, categories, equal_var, alpha, baseline, cols, n_bootstrap,
                   model, out, prepVars>>

\* Lines 254-269: the dict of chi2_independence, returned as it is.
PriorityChi2Return ==
    /\ pc = "pr_call" /\ caller = "show_priority_return_chi2"
    /\ \E h \in Chi2Hits(groups, num_samples) :
          ret' = [chi2_statistic |-> Chi2Stat(ContingencyTable(groups)),
                  p_parametric |-> PParam(ContingencyTable(groups)),
                  p_perm |-> [num |-> h, den |-> num_samples]]
    /\ pc' = "done"
    /\ UNCHANGED <<caller, error, engineLocals, df, top_times, categories,
                   num_permutations, equal_var, alpha, baseline, idx, rows, res,
                   moreVars>>

NextPrio ==
    \/ PriorityChi2Call
    \/ PriorityChi2Return

SpecPrio == Init /\ [][NextPrio]_vars

\* ------------------------------------- round_up_to_next_half_hour
\* A timestamp at microsecond resolution: the day (counted from the first
\* day tried) and the time of the day.
Timestamp(d, h, mi, sec, us) ==
    [day |-> d, hour |-> h, minute |-> mi, second |-> sec, microsecond |-> us]

\* Last day tried.
MaxDay == 1

\* The timestamps tried: every hour of the days, the minutes, seconds and
\* microseconds at and next to the boundaries.
Timestamps ==
    {Timestamp(d, h, mi, sec, us) :
        d \in 0..MaxDay, h \in 0..23, mi \in {0, 1, 29, 30, 31, 59},
        sec \in {0, 1, 59}, us \in {0, 1, 999999}}

\* A boundary test that looks at the seconds only.
OnHalfHourToTheSecond(ts) == (ts.minute = 0 \/ ts.minute = 30) /\ ts.second = 0

\* Line 116: (minute == 0 or minute == 30) and second == 0 and microsecond == 0
OnHalfHour(ts) ==
    (ts.minute = 0 \/ ts.minute = 30) /\ ts.second = 0 /\ ts.microsecond = 0

\* ts + pd.Timedelta(hours=1): the next hour, of the next day after 23.
PlusOneHour(ts) ==
    IF ts.hour = 23 THEN [ts EXCEPT !.hour = 0, !.day = ts.day + 1]
    ELSE [ts EXCEPT !.hour = ts.hour + 1]

\* Lines 110-124
RoundUpToNextHalfHour(ts) ==
    IF OnHalfHour(ts) THEN ts
    ELSE IF ts.minute < 30
    THEN [ts EXCEPT !.minute = 30, !.second = 0, !.microsecond = 0]
    ELSE PlusOneHour([ts EXCEPT !.minute = 0, !.second = 0, !.microsecond = 0])

\* A call of the function, and a call on the timestamp it has returned.
RoundUpCall ==
    /\ pc = "idle"
    /\ \E ts \in Timestamps :
          /\ timestamp' = ts
          /\ rounded' = RoundUpToNextHalfHour(ts)
    /\ pc' = "rounded" /\ caller' = "round_up_to_next_half_hour"
    /\ UNCHANGED <<error, engineLocals, df, top_times, categories, num_permutations,
                   equal_var, alpha, baseline, idx, rows, res, ret, cols, n_bootstrap,
                   model, out, prio_map, absret_threshold>>

RoundUpAgain ==
    /\ pc = "rounded" /\ caller = "round_up_to_next_half_hour"
    /\ timestamp' = rounded
    /\ rounded' = RoundUpToNextHalfHour(rounded)
    /\ pc' = "done"
    /\ UNCHANGED <<caller, error, engineLocals, df, top_times, categories,
                   num_permutations, equal_var, alpha, baseline, idx, rows, res, ret,
                   cols, n_bootstrap, model, out, prio_map, absret_threshold>>

NextRound ==
    \/ RoundUpCall
    \/ RoundUpAgain

SpecRound == Init /\ [][NextRound]_vars

\* ------------------------------------------------------------- claims
InEngine == pc \in {"loop", "ret", "done"}
Returned == pc \in {"ret", "done"}

\* C1: with num_samples >= 1 the value permutation_pvalue returns lies in
\* [0, 1], whatever the groups, the statistic (undefined values included)
\* and two_sided; the hit counter stays within 0..(iterations done).
C1_PValueInUnitInterval ==
    /\ InEngine => (0 <= hits /\ hits <= iter)
    /\ (Returned /\ num_samples >= 1) =>
          (0 <= result.num /\ result.num <= result.den /\ result.den = num_samples)

C1_Witness ==
    /\ pc = "done" /\ caller = "direct" /\ two_sided
    /\ num_samples >= 2 /\ 0 < result.num /\ result.num < result.den

\* C2: a call with num_samples < 1 signals a validation error and neither
\* returns a number nor fails on an incidental arithmetic fault.
C2_RejectsNonPositiveSamples ==
    (pc # "idle" /\ num_samples < 1) =>
        (~Returned /\ error # "ZeroDivisionError")

\* C3: the permutation p-value of ttest_two_samples is two-sided: a
\* reshuffle counts as a hit exactly when |t| >= |t_obs|.
C3_TTestTwoSided ==
    (caller = "ttest_two_samples" /\ InEngine /\ iter > 0) =>
        (inc = 1 <=> Geq(AbsV(t), AbsV(t_obs)))

\* C4: two calls with the same arguments and the same seed draw the same
\* reshuffles and return the same p-value, whatever the generator was
\* before each of them.
C4_SeedDeterminism ==
    (pc = "done" /\ caller = "direct" /\ random_seed.some /\ prev.some) =>
        (result = prev.p /\ trace = prev.perms)

C4_Witness ==
    /\ pc = "done" /\ caller = "direct" /\ random_seed.some /\ prev.some
    /\ num_samples >= 2 /\ Len(trace) = num_samples /\ trace[1] # trace[2]
    /\ 0 < result.num /\ result.num < result.den

\* Observations of a category and of the baseline, counted on the table:
\* top-time rows with a known outcome, with news of the category / without
\* any news.
ObsOf(c) ==
    Cardinality({k \in 1..Len(df) :
        df[k].time \in Range(top_times) /\ df[k].cat[c] > 0 /\ ~df[k].ret.na})

BaseObs ==
    Cardinality({k \in 1..Len(df) :
        df[k].time \in Range(top_times) /\ df[k].event_count = 0 /\ ~df[k].ret.na})

QualifyingCats == {c \in Range(categories) : ObsOf(c) >= 5 /\ BaseObs >= 5}

Recorded == {rows[j].Category : j \in 1..Len(rows)}

CatTTestsDone == caller = "show_category_ttests" /\ pc = "done"

\* C5: the table of show_category_ttests is sorted by raw p-value, rank
\* 0..m-1, and the adjusted value at rank r is min(1, raw * (m - r)), kept
\* with the category of its raw value; raw [0.01, 0.02, 0.20] gives
\* [0.03, 0.04, 0.20].
C5_HolmFormula ==
    CatTTestsDone =>
        LET m == Len(res)
        IN  /\ m = Len(rows)
            /\ \A k \in 1..(m - 1) : res[k].p_perm <= res[k + 1].p_perm
            /\ \A k \in 1..m :
                  /\ res[k].p_perm_holm = Min(Million, res[k].p_perm * (m - (k - 1)))
                  /\ \E j \in 1..m : /\ rows[j].Category = res[k].Category
                                     /\ Round6(rows[j].p_perm) = res[k].p_perm
            /\ {res[k].Category : k \in 1..m} = Recorded
            /\ [k \in 1..m |-> res[k].p_perm] = <<10000, 20000, 200000>>
                  => [k \in 1..m |-> res[k].p_perm_holm] = <<30000, 40000, 200000>>

C5_Witness ==
    /\ CatTTestsDone
    /\ Len(rows) = 3 /\ rows[1].p_perm.num = 20 /\ rows[2].p_perm.num = 2
    /\ [k \in 1..Len(res) |-> res[k].p_perm] = <<10000, 20000, 200000>>
    /\ [k \in 1..Len(res) |-> res[k].p_perm_holm] = <<30000, 40000, 200000>>
    /\ [k \in 1..Len(res) |-> res[k].Category] = <<"C", "B", "A">>

\* C6: every adjusted p-value of the table is at least the raw p-value of
\* its category and at most 1.
C6_HolmBounds ==
    CatTTestsDone =>
        \A k \in 1..Len(res) :
            /\ 0 <= res[k].p_perm
            /\ res[k].p_perm <= res[k].p_perm_holm
            /\ res[k].p_perm_holm <= Million
            /\ \E j \in 1..Len(rows) : /\ rows[j].Category = res[k].Category
                                       /\ Round6(rows[j].p_perm) = res[k].p_perm

C6_Witness ==
    /\ CatTTestsDone /\ Len(res) = 2
    /\ res[1].p_perm > 0 /\ res[1].p_perm_holm = Million
    /\ res[2].p_perm_holm = res[2].p_perm /\ res[2].p_perm < Million

\* C9: a category is t-tested exactly when it and the baseline have at
\* least 5 observations each; when none qualifies the procedure raises a
\* ValueError and returns no list.
C9_MinimumSampleSize ==
    caller = "show_category_ttests" =>
        /\ \A k \in 1..idx :
              (categories[k] \in Recorded)
                  <=> (ObsOf(categories[k]) >= 5 /\ BaseObs >= 5)
        /\ pc \in {"done", "raised"} =>
              /\ pc = "raised" <=> QualifyingCats = {}
              /\ pc = "raised" => (error = "ValueError" /\ ret = <<>> /\ res = <<>>)

C9_Witness ==
    /\ CatTTestsDone /\ BaseObs = 5
    /\ \E c, d \in Range(categories) :
          ObsOf(c) = 4 /\ ObsOf(d) = 5 /\ Recorded = {d}

\* C10: the Holm family is made of exactly the qualifying categories, and
\* the categories returned are exactly those of them whose adjusted
\* p-value is below alpha.
C10_FamilyAndSelection ==
    CatTTestsDone =>
        LET m == Cardinality(QualifyingCats)
            sig == {k \in 1..Len(res) : res[k].p_perm_holm < alpha}
        IN  /\ Len(res) = m
            /\ {res[k].Category : k \in 1..Len(res)} = QualifyingCats
            /\ \A k \in 1..Len(res) :
                  res[k].p_perm_holm = Min(Million, res[k].p_perm * (m - (k - 1)))
            /\ Range(ret) = {res[k].Category : k \in sig}
            /\ Len(ret) = Cardinality(sig)
            /\ Range(ret) \subseteq QualifyingCats

C10_Witness ==
    /\ CatTTestsDone /\ Len(categories) = 2 /\ Len(res) = 1
    /\ res[1].p_perm = 500000 /\ alpha = 600000 /\ ret = <<res[1].Category>>

NewsDone == caller = "show_news_ttests" /\ pc = "done"

\* The top times up to the k-th whose p-value, as it stands in the table
\* (six decimals), is below alpha.
RECURSIVE SlotsBelowAlpha(_)
SlotsBelowAlpha(k) ==
    IF k = 0 THEN <<>>
    ELSE IF Round6(rows[k].p_perm) < alpha
         THEN Append(SlotsBelowAlpha(k - 1), top_times[k])
         ELSE SlotsBelowAlpha(k - 1)

SlotObs(slots, news) ==
    Cardinality({j \in 1..Len(df) :
        /\ df[j].time \in slots /\ ~df[j].ret.na
        /\ (df[j].event_count > 0) = news})

\* C7: show_news_ttests t-tests every slot of top_times once, in order,
\* then the aggregate of all top times once, and returns exactly the slots
\* of top_times whose permutation p-value (the six-decimal value of the
\* result table) is below alpha, in the order of top_times; "All Times" is
\* never returned.
C7_SignificantSlots ==
    /\ caller = "show_news_ttests" =>
          \A k \in 1..Len(rows) :
              /\ k <= Len(top_times) =>
                    /\ rows[k].Time = top_times[k]
                    /\ rows[k].N_x = SlotObs({top_times[k]}, TRUE)
                    /\ rows[k].N_y = SlotObs({top_times[k]}, FALSE)
              /\ k > Len(top_times) =>
                    /\ k = Len(top_times) + 1 /\ rows[k].Time = "All Times"
                    /\ rows[k].N_x = SlotObs(Range(top_times), TRUE)
                    /\ rows[k].N_y = SlotObs(Range(top_times), FALSE)
    /\ NewsDone =>
          /\ Len(rows) = Len(top_times) + 1
          /\ ret = SlotsBelowAlpha(Len(top_times))
          /\ "All Times" \notin Range(ret)

C7_Witness ==
    /\ NewsDone /\ top_times = <<"t2", "t1">>
    /\ Round6(rows[1].p_perm) >= alpha /\ Round6(rows[2].p_perm) < alpha
    /\ Round6(rows[3].p_perm) < alpha
    /\ ret = <<"t1">>

\* A row labelled with a category: a top-time row with news, exactly one
\* tracked category of which has news.
Labelled(r, c) ==
    /\ r.time \in Range(top_times) /\ r.event_count > 0
    /\ r.cat[c] > 0
    /\ \A e \in Range(categories) : r.cat[e] > 0 => e = c

LabelledObs(c) ==
    Cardinality({k \in 1..Len(df) : Labelled(df[k], c) /\ ~df[k].ret.na})

Surviving == {c \in Range(categories) : LabelledObs(c) >= 2}

\* C8: show_category_anova drops the categories with fewer than 2
\* observations; with fewer than 2 survivors it raises a ValueError and
\* does not call anova_oneway; else anova_oneway gets exactly the
\* surviving groups (each of size >= 2, at least 2 of them) and num_groups
\* is the number of entries of group_sizes.
C8_AnovaGroups ==
    caller = "show_category_anova" =>
        /\ pc = "raised" <=> Cardinality(Surviving) < 2
        /\ pc = "raised" =>
              (error = "ValueError" /\ groups = <<>> /\ stat_func # "_f_statistic")
        /\ pc \in {"an_call", "done"} =>
              /\ stat_func = "_f_statistic"
              /\ Len(groups) >= 2 /\ Len(groups) = Cardinality(Surviving)
              /\ Range(rows) = Surviving
              /\ \A k \in 1..Len(groups) :
                    Len(groups[k]) >= 2 /\ Len(groups[k]) = LabelledObs(rows[k])
        /\ pc = "done" =>
              /\ ret.num_groups = Cardinality(DOMAIN ret.group_sizes)
              /\ DOMAIN ret.group_sizes = Surviving
              /\ \A c \in Surviving : ret.group_sizes[c] = LabelledObs(c)

C8_Witness ==
    /\ caller = "show_category_anova" /\ pc = "done"
    /\ Len(categories) = 3 /\ ret.num_groups = 2
    /\ \E c \in Range(categories) : LabelledObs(c) = 1

\* C11: chi2_independence called with fewer than two groups raises a
\* validation error: it never returns a statistic and p-values.
C11_Chi2RejectsFewGroups ==
    (caller = "chi2_independence" /\ Len(groups) < 2) => pc # "done"

\* C12: anova_oneway called with fewer than two groups, with a group of
\* fewer than two observations or with no more observations than groups
\* raises a validation error: it neither enters the resampling loop nor
\* returns an F statistic and a p-value.
C12_AnovaRejectsDegenerate ==
    (caller = "anova_oneway"
        /\ (Len(groups) < 2 \/ \E a \in 1..Len(groups) : Len(groups[a]) < 2
               \/ Len(Concatenate(groups)) <= Len(groups))) =>
        pc = "raised"

\* Observations of a group and a column, counted on the table.
CISampleSize(grp, col) ==
    Cardinality({k \in 1..Len(df) :
        /\ df[k].time \in Range(top_times)
        /\ grp = "With News" => df[k].event_count > 0
        /\ grp = "Without News" => df[k].event_count = 0
        /\ ~df[k].val[col].na})

AllMissing(r) == r.mean.na /\ r.ci_lower.na /\ r.ci_upper.na

MissingWhereUndefined(r) ==
    /\ (r.key.method = "Classical" /\ CISampleSize(r.key.Group, r.key.series) < 2)
          => AllMissing(r)
    /\ (r.key.method = "Bootstrap" /\ CISampleSize(r.key.Group, r.key.series) = 0)
          => AllMissing(r)

InCI == caller = "confidence_intervals"

\* C13: in confidence_intervals the classical row of a sample of fewer
\* than two observations and the bootstrap row of an empty sample report
\* mean, lower and upper as missing; such a sample raises nothing (the call
\* raises only for n_bootstrap <= 0 at a non-empty sample, or without any
\* column); and the result has one classical and one bootstrap row for
\* each of the three groups and each column, 6 * |cols| rows.
C13_MissingNotError ==
    InCI =>
        /\ \A i \in 1..Len(rows) : MissingWhereUndefined(rows[i])
        /\ pc = "raised" =>
              \/ cols = <<>>
              \/ /\ n_bootstrap <= 0
                 /\ CISampleSize(CIGroups[(idx \div Len(cols)) + 1],
                                 cols[(idx % Len(cols)) + 1]) > 0
        /\ pc = "done" =>
              /\ Len(res) = 6 * Len(cols)
              /\ \A i \in 1..Len(res) : MissingWhereUndefined(res[i])
              /\ \A g \in Range(CIGroups), c \in Range(cols),
                    m \in {"Classical", "Bootstrap"} :
                    Cardinality({i \in 1..Len(res) :
                        res[i].key = [Group |-> g, series |-> c, method |-> m]}) = 1

C13_Witness ==
    /\ InCI /\ pc = "done" /\ Len(cols) = 2
    /\ \E i \in 1..Len(res) :
          res[i].key.method = "Classical" /\ res[i].n_obs = 1 /\ AllMissing(res[i])
    /\ \E i \in 1..Len(res) :
          res[i].key.method = "Bootstrap" /\ res[i].n_obs = 0 /\ AllMissing(res[i])
    /\ \E i \in 1..Len(res) :
          /\ res[i].key.method = "Bootstrap" /\ ~res[i].ci_lower.na
          /\ res[i].ci_lower.v < res[i].ci_upper.v

\* C14: a bootstrap count of 0 or less produces no bootstrap-derived
\* interval: mlr leaves boot_coefs_ as None and sets no conf_int_,
\* evaluate_regression then computes no prediction interval and takes the
\* 'no bootstrap information' path, and confidence_intervals reports no
\* numeric bootstrap lower or upper bound.
C14_NoBootstrapNoInterval ==
    n_bootstrap <= 0 =>
        /\ (caller = "mlr" /\ pc \in {"fitted", "done"}) =>
              /\ ~model.has_boot /\ ~model.has_conf_int /\ model.boot_coefs_ = <<>>
              /\ ~out.coef_ci /\ ~out.interval /\ out.plot # "intervals"
        /\ InCI =>
              /\ \A i \in 1..Len(rows) : rows[i].key.method = "Bootstrap" =>
                    (rows[i].ci_lower.na /\ rows[i].ci_upper.na)
              /\ \A i \in 1..Len(res) : res[i].key.method = "Bootstrap" =>
                    (res[i].ci_lower.na /\ res[i].ci_upper.na)

C14_Witness ==
    /\ caller = "mlr" /\ pc = "done" /\ n_bootstrap = 0
    /\ model.fitted /\ out.plot = "no bootstrap information"


Separated == groups = <<GroupA, GroupB>>

\* C15 (as stated): for A = [10,10,10,10,10] and B = [0,0,0,0,0] and the
\* t statistic the value returned is at most 1 / num_samples (at most one
\* reshuffle is a hit), whatever the reshuffles drawn.
C15_AtMostOneHit ==
    (Separated /\ Returned) => result.num <= 1

\* The reshuffles that count for the separated groups: the pooled array
\* back in the observed split (and, two-sided, in the mirrored split).
CountsAsExtreme(f) ==
    \/ f = GroupA \o GroupB
    \/ two_sided /\ f = GroupB \o GroupA

\* C15 (amended): for A and B the hits are exactly the reshuffles that
\* reproduce the observed split (or, two-sided, its mirror image), and the
\* value returned is their number divided by num_samples.
C15_HitsAreObservedSplits ==
    /\ [][(Separated /\ pc = "loop" /\ iter' = iter + 1) =>
            hits' = hits + (IF CountsAsExtreme(flat') THEN 1 ELSE 0)]_vars
    /\ []((Separated /\ Returned) =>
            (result.num = hits /\ result.den = num_samples /\ iter = num_samples))

C15_Witness ==
    /\ Separated /\ pc = "done" /\ caller = "ttest_two_samples"
    /\ num_samples = 2 /\ result.num = 2


\* The labels of the pooled observations, and their number below a label.
PooledLabels == {groups[r][i] : <<r, i>> \in
                    {<<r, i>> \in (1..Len(groups)) \X (1..(MaxCount + 1)) :
                        i <= Len(groups[r])}}

LabelRank(v) == Cardinality({u \in PooledLabels : u < v}) + 1

Occurrences(r, v) == Cardinality({i \in 1..Len(groups[r]) : groups[r][i] = v})

ChiDone == caller = "_chi2_statistic" /\ pc = "done"

LiteralGroups == <<<<0, 0, 1, 1>>, <<1, 1, 1, 0>>>>

\* C16: _chi2_statistic builds one row per group, in group order, and one
\* column per distinct label of the pooled observations (ascending), each
\* cell the number of occurrences of the label in the group; the statistic
\* is Pearson's sum without continuity correction: for a 2 x 2 table
\* [[a, b], [c, d]] it is N * (a*d - b*c)^2 / (R1 * R2 * C1 * C2), and for
\* the groups [0,0,1,1] and [1,1,1,0] the table is [[2,2],[1,3]] and the
\* statistic 8/15.
C16_ContingencyAndPearson ==
    ChiDone =>
        /\ Len(res) = Len(groups)
        /\ \A r \in 1..Len(groups) :
              /\ Len(res[r]) = Cardinality(PooledLabels)
              /\ \A v \in PooledLabels : res[r][LabelRank(v)] = Occurrences(r, v)
        /\ (Len(groups) = 2 /\ Cardinality(PooledLabels) = 2) =>
              LET a  == res[1][1]
                  b  == res[1][2]
                  c  == res[2][1]
                  d  == res[2][2]
                  N  == a + b + c + d
              IN  /\ ~t.nan /\ t.den # 0
                  /\ t.num * ((a + b) * (c + d) * (a + c) * (b + d))
                        = t.den * (N * (a * d - b * c) * (a * d - b * c))
        /\ groups = LiteralGroups =>
              (res = <<<<2, 2>>, <<1, 3>>>> /\ t = Num(1, 8, 15))

C16_Witness == ChiDone /\ groups = LiteralGroups /\ t = Num(1, 8, 15)

\* C17: for two groups of at least two observations each and a non-zero
\* within-group variance, the F statistic of _f_statistic is the square of
\* Student's (equal-variance) t statistic of the same two groups.
C17_FIsStudentSquared ==
    (caller = "_f_statistic" /\ pc = "done" /\ Len(groups) = 2
        /\ Len(groups[1]) >= 2 /\ Len(groups[2]) >= 2
        /\ \E g \in 1..2 : \E i, j \in 1..Len(groups[g]) : groups[g][i] # groups[g][j]) =>
        LET ts == TStat(groups[1], groups[2], TRUE)
        IN  /\ ~t.nan /\ ~ts.nan /\ t.den # 0 /\ ts.den # 0
            /\ t = Ratio(ts.num, ts.den)

C17_Witness ==
    /\ caller = "_f_statistic" /\ pc = "done"
    /\ groups = <<<<0, 1, 1>>, <<2, 2>>>>
    /\ t = Num(1, 48, 5)


InPrio == caller = "show_priority_return_chi2"

\* The tracked categories with news in a row, the rows of the target
\* slots that have one, and the largest priority among them.
ActiveTracked(r) == {c \in DOMAIN prio_map : r.cat[c] > 0}

Prioritised == SelectSeq(df, LAMBDA r : r.time \in Range(top_times) /\ ActiveTracked(r) # {})

TopPriority(r) ==
    CHOOSE q \in {prio_map[c] : c \in ActiveTracked(r)} :
        \A c \in ActiveTracked(r) : prio_map[c] <= q

PriorityLevels == {TopPriority(Prioritised[k]) : k \in 1..Len(Prioritised)}

\* The rows of the i-th lowest priority level, in the order of the table.
OfLevel(i) ==
    SelectSeq(Prioritised, LAMBDA r :
        Cardinality({q \in PriorityLevels : q < TopPriority(r)}) = i - 1)

\* The magnitude of the row reaches the threshold (both doubled).
ReachesThreshold(r) ==
    LET thr2 == Thr2(SelectSeq(df, LAMBDA q : q.time \in Range(top_times)),
                     absret_threshold)
    IN  ~r.ret.na /\ ~thr2.na /\ 2 * r.ret.v >= thr2.v

\* C18: in show_priority_return_chi2 the groups are the priority levels in
\* ascending order, the priority of an observation of the target slots
\* being the largest prio_map value of its tracked categories with news;
\* observations without one are in no group, every other observation is in
\* exactly the group of its level (the sizes sum to their number), and the
\* grouped value is 1 exactly when the magnitude reaches the threshold.
C18_PriorityGroups ==
    (InPrio /\ pc # "idle") =>
        /\ Len(groups) = Cardinality(PriorityLevels)
        /\ SeqSum([i \in 1..Len(groups) |-> Len(groups[i])]) = Len(Prioritised)
        /\ \A i \in 1..Len(groups) :
              /\ Len(groups[i]) = Len(OfLevel(i))
              /\ \A j \in 1..Len(groups[i]) :
                    /\ groups[i][j] \in {0, 1}
                    /\ groups[i][j] = 1 <=> ReachesThreshold(OfLevel(i)[j])

C18_Witness ==
    /\ InPrio /\ pc = "done" /\ Len(groups) = 2 /\ absret_threshold.median
    /\ \E k \in 1..Len(Prioritised) :
          /\ Cardinality(ActiveTracked(Prioritised[k])) = 2
          /\ \E c \in ActiveTracked(Prioritised[k]) :
                prio_map[c] < TopPriority(Prioritised[k])
    /\ \E k \in 1..Len(df) :
          df[k].time \in Range(top_times) /\ ActiveTracked(df[k]) = {}
    /\ \E i \in 1..2 : \E j, l \in 1..Len(groups[i]) : groups[i][j] # groups[i][l]


\* C19: in every iteration of permutation_pvalue the reshuffled partition
\* has as many chunks as there are groups, its i-th chunk has the size of
\* the i-th group, the chunks together are the whole shuffled array, and
\* the values of the shuffled array are the pooled observations, each as
\* often as in the input.
C19_PartitionPreserved ==
    pc = "loop" =>
        LET parts == Split(flat, sizes)
        IN  /\ Len(parts) = Len(groups)
            /\ \A i \in 1..Len(groups) : Len(parts[i]) = Len(groups[i])
            /\ Concatenate(parts) = flat
            /\ \A v \in Vals : Count(flat, v) = Count(Concatenate(groups), v)
            /\ Len(flat) = Len(Concatenate(groups))

C19_Witness ==
    /\ pc = "loop" /\ iter = 2 /\ random_seed.some
    /\ Len(groups[1]) # Len(groups[2])
    /\ flat # Concatenate(groups)
    /\ Split(flat, sizes) # groups

\* The comparison of line 28.
CountsAsHit(tt) ==
    IF two_sided THEN Geq(AbsV(tt), AbsV(t_obs)) ELSE Geq(tt, t_obs)

\* C20: permutation_pvalue with num_samples >= 1 terminates; the
\* statistic is evaluated on the observed groups once and on exactly
\* num_samples reshuffles; an iteration adds 1 to the hit counter exactly
\* when |t| >= |t_obs| (two_sided) or t >= t_obs (one-sided) and 0
\* otherwise; the result is the final hit count over num_samples.
C20_LoopCountsAndTerminates ==
    /\ [][(pc = "loop" /\ iter' # iter) =>
            /\ iter' = iter + 1 /\ iter' <= num_samples
            /\ t_obs' = t_obs /\ t_obs = StatApply(stat_func, groups)
            /\ t' = StatApply(stat_func, Split(flat', sizes))
            /\ hits' = hits + (IF CountsAsHit(t') THEN 1 ELSE 0)]_vars
    /\ [](pc = "done" =>
            (iter = num_samples /\ result = [num |-> hits, den |-> num_samples]))
    /\ [](pc = "loop" => <>(pc = "done"))

C20_Witness ==
    /\ pc = "done" /\ num_samples = 2 /\ iter = 2 /\ hits = 1 /\ inc = 0 /\ two_sided


\* C21: show_category_ttests applies no cumulative maximum to the Holm
\* column: whenever the product raw * factor of a rank is below the
\* adjusted value of the rank before it, the category of the larger raw
\* p-value keeps that strictly smaller adjusted value; raw [0.03, 0.04]
\* gives adjusted [0.06, 0.04].
C21_NoCumulativeMaximum ==
    CatTTestsDone =>
        LET m == Len(res)
        IN  /\ \A k \in 2..m :
                  res[k].p_perm * (m - (k - 1)) < res[k - 1].p_perm_holm
                      => /\ res[k].p_perm >= res[k - 1].p_perm
                         /\ res[k].p_perm_holm < res[k - 1].p_perm_holm
                         /\ res[k].p_perm_holm = res[k].p_perm * (m - (k - 1))
            /\ [k \in 1..m |-> res[k].p_perm] = <<30000, 40000>>
                  => [k \in 1..m |-> res[k].p_perm_holm] = <<60000, 40000>>

C21_Witness ==
    /\ CatTTestsDone /\ Len(res) = 2
    /\ rows[1].p_perm.num = 4 /\ rows[2].p_perm.num = 3
    /\ res[1].p_perm = 30000 /\ res[2].p_perm = 40000
    /\ res[1].p_perm_holm = 60000 /\ res[2].p_perm_holm = 40000
    /\ res[2].p_perm > res[1].p_perm /\ res[2].p_perm_holm < res[1].p_perm_holm


InChi2Loop == caller = "chi2_independence" /\ pc = "loop"

\* C22: in the permutation test of chi2_independence every permuted
\* contingency table has the columns of the observed table (the same
\* levels in the same order), the row totals of the observed table (the
\* sizes of the groups) and its column totals (the counts of the labels in
\* the pool); a reshuffle is a hit exactly when its chi-square is >= the
\* observed chi-square.
C22_PermutedTableMargins ==
    /\ [](InChi2Loop =>
            LET parts    == Split(flat, sizes)
                permuted == ContingencyTable(parts)
                observed == ContingencyTable(groups)
            IN  /\ Levels(parts) = Levels(groups)
                /\ Len(permuted) = Len(observed)
                /\ \A r \in 1..Len(permuted) :
                      /\ Len(permuted[r]) = Len(observed[r])
                      /\ SeqSum(permuted[r]) = Len(groups[r])
                      /\ SeqSum(permuted[r]) = SeqSum(observed[r])
                /\ \A c \in 1..Len(Levels(groups)) :
                      /\ ColTotals(permuted)[c] = ColTotals(observed)[c]
                      /\ ColTotals(permuted)[c]
                            = Count(Concatenate(groups), Levels(groups)[c])
                /\ ~two_sided
                /\ t_obs = Chi2Stat(observed)
                /\ iter >= 1 => t = Chi2Stat(permuted))
    /\ [][(InChi2Loop /\ iter' = iter + 1) =>
            hits' = hits + (IF Geq(t', t_obs) THEN 1 ELSE 0)]_vars

C22_Witness ==
    /\ InChi2Loop /\ iter = 2 /\ hits = 1
    /\ Len(Levels(groups)) = 2 /\ Len(groups) = 2
    /\ ContingencyTable(Split(flat, sizes)) # ContingencyTable(groups)
    /\ ~Geq(t, t_obs)


\* The tracked categories with a positive count in the row.
ActiveCats(r) == {e \in Range(categories) : r.cat[e] > 0}

\* The outcomes of the rows of the set, in the order of the table.
RECURSIVE ReturnsAt(_, _)
ReturnsAt(J, k) ==
    IF k = 0 THEN <<>>
    ELSE IF k \in J THEN Append(ReturnsAt(J, k - 1), df[k].ret.v)
    ELSE ReturnsAt(J, k - 1)

AnovaCalled == caller = "show_category_anova" /\ pc \in {"an_call", "done"}

\* C23: the groups show_category_anova hands to anova_oneway hold only
\* outcomes of rows in the target slots with a positive event count and
\* exactly one tracked category with a positive count, each in the group
\* of that category; the groups are pairwise disjoint, a row with no or
\* with two or more active tracked categories is in no group, and a row
\* that meets the conditions with a known outcome is in the group of its
\* category (which is handed on when it has two observations or more).
C23_SingleCategoryGroups ==
    AnovaCalled =>
        LET members(c) == GroupIndex(df, top_times, categories, c)
        IN  /\ \A k \in 1..Len(rows) :
                  /\ groups[k] = ReturnsAt(members(rows[k]), Len(df))
                  /\ \A j \in members(rows[k]) :
                        /\ df[j].time \in Range(top_times)
                        /\ df[j].event_count > 0
                        /\ ActiveCats(df[j]) = {rows[k]}
            /\ \A a, b \in 1..Len(rows) :
                  a # b => members(rows[a]) \cap members(rows[b]) = {}
            /\ \A j \in 1..Len(df) :
                  /\ Cardinality(ActiveCats(df[j])) # 1
                        => \A c \in Range(categories) : j \notin members(c)
                  /\ (/\ df[j].time \in Range(top_times) /\ df[j].event_count > 0
                      /\ Cardinality(ActiveCats(df[j])) = 1 /\ ~df[j].ret.na)
                        => \E c \in ActiveCats(df[j]) :
                              /\ j \in members(c)
                              /\ c \in Range(rows) <=> Cardinality(members(c)) >= 2

C23_Witness ==
    /\ AnovaCalled /\ Len(groups) = 2 /\ Len(categories) = 3
    /\ \E j \in 1..Len(df) :
          /\ df[j].time \in Range(top_times) /\ df[j].event_count > 0
          /\ Cardinality(ActiveCats(df[j])) = 2 /\ ~df[j].ret.na
    /\ \E c \in Range(categories) :
          Cardinality(GroupIndex(df, top_times, categories, c)) = 1


MlrBootstrapped == caller = "mlr" /\ pc \in {"fitted", "done"} /\ n_bootstrap > 0

\* C24: mlr with n_bootstrap > 0 draws exactly n_bootstrap resamples, each
\* of len(X_train) row indices of 0..len(X_train)-1 (repetitions allowed)
\* that select the rows, the targets and the weights alike, and keeps the
\* coefficients of every refit: boot_coefs_ has n_bootstrap rows of
\* n_features + 1 entries, the intercept first, row i the refit of the i-th
\* resample drawn.
C24_BootstrapRetainsEveryRefit ==
    MlrBootstrapped =>
        LET m == model.n_train
        IN  /\ Len(model.boot_coefs_) = n_bootstrap
            /\ \A i \in 1..n_bootstrap :
                  LET coefs == model.boot_coefs_[i]
                      drawn == [k \in 1..m |->
                                  RandInt(random_seed.val, (i - 1) * m + (k - 1), m)]
                  IN  /\ Len(coefs) = model.n_feats + 1
                      /\ \A j \in 1..Len(coefs) : coefs[j].term = j - 1
                      /\ \A k \in 1..m : 0 <= drawn[k] /\ drawn[k] <= m - 1
                      /\ \A j \in 1..Len(coefs) :
                            /\ Len(coefs[j].X) = m /\ Len(coefs[j].y) = m
                            /\ Len(coefs[j].w) = (IF model.weighted THEN m ELSE 0)
                            /\ \A k \in 1..m :
                                  /\ coefs[j].X[k].row = drawn[k] + 1
                                  /\ coefs[j].y[k].target = drawn[k] + 1
                                  /\ model.weighted => coefs[j].w[k].weight = drawn[k] + 1

C24_Witness ==
    /\ MlrBootstrapped /\ n_bootstrap = 2 /\ model.weighted /\ model.n_feats = 2
    /\ model.n_train = 2
    /\ model.boot_coefs_[1][1].X # model.boot_coefs_[2][1].X
    /\ \E i \in 1..2 :
          model.boot_coefs_[i][1].X[1] = model.boot_coefs_[i][1].X[2]


\* C25: permutation_pvalue leaves the groups it was called with as they
\* were: from the entry of a call to its return no step changes the length,
\* the values or the order of any group, however many shuffles are made;
\* the shuffles reorder the pooled copy only.
C25_InputGroupsUnchanged ==
    [][(pc \in {"loop", "ret"} /\ pc' \in {"loop", "ret", "done"}) =>
          /\ groups' = groups
          /\ Len(flat') = Len(Concatenate(groups))
          /\ sizes' = [k \in 1..Len(groups) |-> Len(groups[k])]]_vars

C25_Witness ==
    /\ pc = "done" /\ iter = 2 /\ num_samples = 2
    /\ Len(groups) = 2 /\ Len(groups[1]) = 2 /\ Len(groups[2]) = 1
    /\ flat # Concatenate(groups)
    /\ t_obs = StatApply(stat_func, groups)


\* Seconds from the start of the first day to the second of the timestamp.
SecondsOf(ts) == ((ts.day * 24 + ts.hour) * 60 + ts.minute) * 60 + ts.second

NotBefore(a, b) ==
    \/ SecondsOf(a) > SecondsOf(b)
    \/ SecondsOf(a) = SecondsOf(b) /\ a.microsecond >= b.microsecond

\* a is less than 30 minutes after b.
WithinHalfHourAfter(a, b) ==
    \/ SecondsOf(a) - SecondsOf(b) < 1800
    \/ SecondsOf(a) - SecondsOf(b) = 1800 /\ a.microsecond < b.microsecond

HalfHours ==
    {Timestamp(d, h, mi, 0, 0) : d \in 0..(MaxDay + 1), h \in 0..23, mi \in {0, 30}}

RoundUpDone == caller = "round_up_to_next_half_hour" /\ pc \in {"rounded", "done"}

\* C26: round_up_to_next_half_hour returns the smallest timestamp that is
\* not before its argument and has minute 0 or 30, second 0 and
\* microsecond 0: an argument on such a boundary is returned as it is,
\* the result is less than 30 minutes after the argument, and the function
\* applied to its own result returns that result, across the change of
\* the hour and of the day as well.
C26_RoundUpToNextHalfHour ==
    RoundUpDone =>
        /\ rounded \in HalfHours
        /\ NotBefore(rounded, timestamp)
        /\ \A u \in HalfHours : NotBefore(u, timestamp) => NotBefore(u, rounded)
        /\ timestamp \in HalfHours => rounded = timestamp
        /\ WithinHalfHourAfter(rounded, timestamp)
        /\ 0 <= rounded.hour /\ rounded.hour <= 23
        /\ pc = "done" => rounded = timestamp

C26_Witness ==
    /\ RoundUpDone /\ pc = "rounded"
    /\ timestamp = Timestamp(0, 23, 30, 0, 1)
    /\ rounded = Timestamp(1, 0, 0, 0, 0)


\* C27: the categories show_category_ttests returns are closed downward in
\* raw p-value: with a category returned as significant, every category
\* of the table whose raw p-value is smaller than or equal to its own is
\* returned as well.
C27_SignificantClosedDownward ==
    CatTTestsDone =>
        \A k, j \in 1..Len(res) :
            (res[k].Category \in Range(ret) /\ res[j].p_perm <= res[k].p_perm)
                => res[j].Category \in Range(ret)


\* C28: a slot whose two-sample t statistic is undefined (fewer than 2
\* observations with news or without news, so the observed statistic is
\* NaN) is never among the slots show_news_ttests returns as significant.
C28_UndefinedNeverSignificant ==
    NewsDone =>
        \A k \in 1..Len(rows) :
            (rows[k].N_x < 2 \/ rows[k].N_y < 2 \/ rows[k].t_stat.nan)
                => rows[k].Time \notin Range(ret)


\* np.random.shuffle of s on the stream of a seed, from the position pos.
ShuffleAt(seed, pos, s) ==
    FisherYates(s, Len(s) - 1,
                [i \in 1..(Len(s) - 1) |-> Draw(seed, pos + (Len(s) - 1 - i), i)])

\* The hits of k iterations that start with the array fl at the position
\* pos of the stream of the seed.
RECURSIVE HitsFrom(_, _, _, _)
HitsFrom(seed, pos, fl, k) ==
    IF k = 0 THEN 0
    ELSE LET nf == ShuffleAt(seed, pos, fl)
         IN  (IF CountsAsHit(StatApply(stat_func, Split(nf, sizes))) THEN 1 ELSE 0)
                + HitsFrom(seed, pos + DrawsOf(fl), nf, k - 1)

\* The seed the generator was last seeded with, and the draws made from it
\* before the call that is running.
LastSeed == IF random_seed.some THEN random_seed.val ELSE prev.seed.val

DrawsBefore ==
    IF random_seed.some \/ prev.perms = <<>> THEN 0
    ELSE Len(prev.perms) * DrawsOf(prev.perms[1])

AfterSeeding == pc \in {"loop", "done"} /\ (random_seed.some \/ prev.seed.some)

\* C29: the calls share one generator that a seeded call resets and every
\* shuffle advances: the reshuffles and the result of an unseeded call
\* that follows a seeded call are a function of its own arguments, of the
\* seed and of the draws made since the seeding (the stream goes on where
\* the seeded call left it), so the pair of p-values of 'seeded call, then
\* unseeded call' is the same whenever it is run, and the seed of the
\* earlier call decides the reshuffles of the later one.
C29_SharedGenerator ==
    /\ [](AfterSeeding =>
            /\ rng.seeded /\ rng.seed = LastSeed
            /\ rng.n = DrawsBefore + iter * DrawsOf(flat)
            /\ pc = "done" =>
                  /\ result.den = num_samples
                  /\ result.num = HitsFrom(LastSeed, DrawsBefore,
                                           Concatenate(groups), num_samples))
    /\ [][(AfterSeeding /\ pc = "loop" /\ iter' = iter + 1) =>
            flat' = ShuffleAt(LastSeed, DrawsBefore + iter * DrawsOf(flat), flat)]_vars

C29_Witness ==
    /\ pc = "done" /\ calls = 2 /\ ~random_seed.some /\ prev.seed.some
    /\ Len(prev.perms) >= 1 /\ DrawsBefore > 0 /\ result.num > 0
    /\ \E other \in SharedSeeds :
          /\ other # prev.seed
          /\ HitsFrom(other.val, DrawsBefore, Concatenate(groups), num_samples)
                # result.num
    /\ ShuffleAt(LastSeed, 0, Concatenate(groups))
          # ShuffleAt(LastSeed, DrawsBefore, Concatenate(groups))


=============================================================================
